---- MODULE Spec2Model ----
(***************************************************************************)
(* A model of the staged-builder derive macro and of the builder it        *)
(* generates.  The macro (staged-builder-internals/src/lib.rs) resolves    *)
(* the `#[builder(...)]` options of a struct into a list of ResolvedField  *)
(* and emits one stage type per required field plus the final stage        *)
(* `Complete`.  The model resolves a schema the way the macro does and     *)
(* then runs the emitted builder: `builder()`, the stage setters, the      *)
(* setters of the final stage and `build`.                                 *)
(***************************************************************************)
EXTENDS Integers, Sequences, FiniteSets, TLC

(***************************************************************************)
(* Bounds of the model.                                                    *)
(***************************************************************************)
\* the largest schema: the number of declared fields, a collection field
\* (with its three operations) counting for two
MaxFields == 3
\* the longest list a builder accumulates
MaxLen == 2
\* the number of times the state of the program around the builder changes
MaxClock == 2
\* the number of options written on the field under test
MaxOpts == 3

(***************************************************************************)
(* The state.                                                              *)
(***************************************************************************)
VARIABLES
    input,      \* the struct the macro was derived on
    expansion,  \* what the macro returned for it: Ok, or Err with the
                \* diagnostics
    overrides,  \* its StructOverrides
    fields,     \* its resolved fields
    live,       \* the builder values the caller owns (not yet moved)
    result,     \* what build returned
    validated,  \* the values Validate::validate was called with, in order
    lastOp,     \* the last operation, its field and the number of items
                \* the field held before it
    called,     \* the positions of the stage setters called, in order
    args,       \* the argument each stage setter was called with
    lastSet,    \* the value stored by the last final-stage operation on
                \* each field
    clock,      \* the state of the program around the builder, which a
                \* default expression may read
    other,      \* a builder value the caller has put aside, to start a
                \* second construction
    evals,      \* for each field, the clock at each evaluation of its
                \* default expression in the construction under way
    evalOrder   \* the fields whose default expression was evaluated in
                \* the construction under way, in the order of evaluation

vars == <<input, expansion, overrides, fields, live, result, validated, lastOp, called,
          args, lastSet, clock, other, evals, evalOrder>>

\* the arguments given to setters
Args == {1, 2}

\* the field identifiers, by position of declaration
Idents == <<"a", "b", "c", "d", "e">>

(***************************************************************************)
(* Values.  A setter argument is a number; the conversions map it into the *)
(* stored type, a disjoint range for each conversion.                      *)
(***************************************************************************)
\* ::staged_builder::__private::Into::into
Into_into(x) == x + 10

\* the `convert` callable of the tests (test.rs, fn to_string)
to_string(x) == x + 20

\* the closure expression of the tests (test.rs, ClosureConvert), by its
\* tokens
ClosureTokens == "|s| s.to_string()"

\* a closure that is never called: a value of no stored type
UncalledClosure == 0 - 1

\* a callable expression, named by its tokens, invoked with an argument
Invoke(callable, x) ==
    CASE callable = "Into::into" -> Into_into(x)
      [] callable \in {"to_string", ClosureTokens} -> to_string(x)
      [] OTHER -> x

\* the expression made of the tokens of `convert` followed by an argument
\* list, as quote!(#convert(#name)) writes it: after a path it is a call of
\* the path; after a closure expression it belongs to the body of the
\* closure, and the expression is the closure itself, not called
Call(convert, x) ==
    IF convert = ClosureTokens THEN UncalledClosure ELSE Invoke(convert, x)

\* Default::default() of a field type
TypeDefault(ty) ==
    CASE ty = "list" -> << >>
      [] ty = "set" -> {}
      [] ty = "map" -> {}
      [] OTHER -> 0

DefaultTokens == "Default::default()"

\* an expression for a collection of one item
OneItemTokens == "FromIterator::from_iter([Default::default()])"

\* the value of a default initializer expression in a field of type ty,
\* evaluated now: Default::default(), an expression that reads the state
\* of the program, or the literal 42
EvalInitializer(initializer, ty) ==
    CASE initializer = DefaultTokens -> TypeDefault(ty)
      [] initializer = "now()" -> clock
      [] initializer = OneItemTokens ->
            CASE ty = "list" -> <<0>>
              [] ty = "set" -> {0}
              [] OTHER -> {<<0, 0>>}
      [] OTHER -> 42

(***************************************************************************)
(* The options of the attribute grammar, as parsed.                        *)
(***************************************************************************)
\* a sub-option item(...), key(...) or value(...): written with the options
\* inside it, or not written
Written(opts) == [written |-> TRUE, opts |-> opts]
NoParam == [written |-> FALSE, opts |-> << >>]

\* the options inside item(...), key(...), value(...)
TypeOpt(t) == [k |-> "type", type_ |-> t, convert |-> ""]
IntoOpt == [k |-> "into", type_ |-> "", convert |-> ""]
CustomOpt(t, c) == [k |-> "custom", type_ |-> t, convert |-> c]

\* the field options
Override(o, init, t, c, item, key, value) ==
    [o |-> o, initializer |-> init, type_ |-> t, convert |-> c,
     item |-> item, key |-> key, value |-> value]
DefaultOv(init) == Override("default", init, "", "", NoParam, NoParam, NoParam)
IntoOv == Override("into", "", "", "", NoParam, NoParam, NoParam)
CustomOv(t, c) == Override("custom", "", t, c, NoParam, NoParam, NoParam)
ListOv(item) == Override("list", "", "", "", Written(item), NoParam, NoParam)
SetOv(item) == Override("set", "", "", "", Written(item), NoParam, NoParam)
MapOv(key, value) ==
    Override("map", "", "", "", NoParam, Written(key), Written(value))

\* CollectionParamConfig
ParamConfig(t, c) == [type_ |-> t, convert_fn |-> c]
NoConfig == ParamConfig("", "None")

\* impl Parse for CustomConfig: the message of the error custom(...) fails
\* to parse with, "" when it parses
CustomConfig_parse(type_, convert) ==
    IF type_ = "" THEN "missing type configuration"
    ELSE IF convert = "" THEN "missing convert configuration"
    ELSE ""

\* impl Parse for CollectionTypeOverride: the message of the error one
\* option inside item(...), key(...) or value(...) fails to parse with
CollectionTypeOverride_parse(opt) ==
    CASE opt.k \in {"type", "into"} -> ""
      [] opt.k = "custom" -> CustomConfig_parse(opt.type_, opt.convert)
      [] OTHER -> "expected one of: type, into, custom"

\* content.parse_terminated(CollectionTypeOverride::parse): the error of
\* the first option that fails to parse, from position i on
RECURSIVE CollectionTypeOverrides_parse(_, _)
CollectionTypeOverrides_parse(opts, i) ==
    IF i > Len(opts) THEN ""
    ELSE IF CollectionTypeOverride_parse(opts[i]) # ""
         THEN CollectionTypeOverride_parse(opts[i])
         ELSE CollectionTypeOverrides_parse(opts, i + 1)

\* the loop of CollectionParamConfig::parse asking for a type beside
\* `custom` as well
RECURSIVE CollectionParamConfig_scan_typed(_, _, _, _)
CollectionParamConfig_scan_typed(opts, i, type_, into) ==
    IF i > Len(opts)
    THEN IF type_ = ""
         THEN [err |-> "missing type configuration", config |-> NoConfig]
         ELSE IF into
              THEN [err |-> "",
                    config |-> ParamConfig("impl Into<" \o type_ \o ">", "Into::into")]
              ELSE [err |-> "", config |-> ParamConfig(type_, "None")]
    ELSE CASE opts[i].k = "type" ->
                CollectionParamConfig_scan_typed(opts, i + 1, opts[i].type_, into)
           [] opts[i].k = "into" ->
                CollectionParamConfig_scan_typed(opts, i + 1, type_, TRUE)
           [] OTHER ->
                IF type_ = ""
                THEN [err |-> "missing type configuration", config |-> NoConfig]
                ELSE [err |-> "",
                      config |-> ParamConfig(opts[i].type_, opts[i].convert)]

\* the loop of impl Parse for CollectionParamConfig over the parsed options
\* of one item, key or value; `custom` returns at once, `into` wraps the
\* type
RECURSIVE CollectionParamConfig_scan(_, _, _, _)
CollectionParamConfig_scan(opts, i, type_, into) ==
    IF i > Len(opts)
    THEN IF type_ = ""
         THEN [err |-> "missing type configuration", config |-> NoConfig]
         ELSE IF into
              THEN [err |-> "",
                    config |-> ParamConfig("impl Into<" \o type_ \o ">", "Into::into")]
              ELSE [err |-> "", config |-> ParamConfig(type_, "None")]
    ELSE CASE opts[i].k = "type" ->
                CollectionParamConfig_scan(opts, i + 1, opts[i].type_, into)
           [] opts[i].k = "into" ->
                CollectionParamConfig_scan(opts, i + 1, type_, TRUE)
           [] OTHER ->
                [err |-> "", config |-> ParamConfig(opts[i].type_, opts[i].convert)]

\* impl Parse for CollectionParamConfig: the options are parsed first, and
\* an option that fails to parse ends it with that error
CollectionParamConfig_parse(opts) ==
    IF CollectionTypeOverrides_parse(opts, 1) # ""
    THEN [err |-> CollectionTypeOverrides_parse(opts, 1), config |-> NoConfig]
    ELSE CollectionParamConfig_scan(opts, 1, "", FALSE)

\* CollectionParamConfig::convert: the conversion of one item
convert(config, x) ==
    IF config.convert_fn = "None" THEN x ELSE Call(config.convert_fn, x)

\* convert_iter handing the items on unconverted
convert_iter_unconverted(config, s) == s

\* CollectionParamConfig::convert_iter: the conversion of a sequence of items
convert_iter(config, s) ==
    IF config.convert_fn = "None"
    THEN s
    ELSE [i \in 1..Len(s) |-> Invoke(config.convert_fn, s[i])]

(***************************************************************************)
(* Field resolution.                                                       *)
(***************************************************************************)
NoneDefault == [some |-> FALSE, initializer |-> ""]
SomeDefault(init) == [some |-> TRUE, initializer |-> init]

\* FieldMode
Normal(t, assign) ==
    [kind |-> "Normal", type_ |-> t, assign |-> assign,
     item |-> NoConfig, key |-> NoConfig, value |-> NoConfig]
UnaryCollection(kind, item) ==
    [kind |-> kind, type_ |-> "", assign |-> "",
     item |-> item, key |-> NoConfig, value |-> NoConfig]
Map(key, value) ==
    [kind |-> "Map", type_ |-> "", assign |-> "",
     item |-> NoConfig, key |-> key, value |-> value]

\* ApplyOverride with an `into` that leaves the parameter type of the setter
\* as the type of the field
ApplyOverride_into_unwrapped(resolved, ov) ==
    CASE ov.o = "default" ->
            [resolved EXCEPT !.default = SomeDefault(ov.initializer)]
      [] ov.o = "into" ->
            [resolved EXCEPT !.mode = Normal(resolved.ty, "into")]
      [] ov.o = "custom" ->
            [resolved EXCEPT !.mode = Normal(ov.type_, ov.convert)]
      [] ov.o \in {"list", "set"} ->
            [resolved EXCEPT
                !.default = SomeDefault(DefaultTokens),
                !.mode = UnaryCollection(IF ov.o = "list" THEN "List" ELSE "Set",
                                         CollectionParamConfig_parse(ov.item.opts).config)]
      [] OTHER ->
            [resolved EXCEPT
                !.default = SomeDefault(DefaultTokens),
                !.mode = Map(CollectionParamConfig_parse(ov.key.opts).config,
                             CollectionParamConfig_parse(ov.value.opts).config)]

\* ApplyOverride with list, set and map leaving the default of the field as
\* it is
ApplyOverride_collection_required(resolved, ov) ==
    CASE ov.o = "default" ->
            [resolved EXCEPT !.default = SomeDefault(ov.initializer)]
      [] ov.o = "into" ->
            [resolved EXCEPT
                !.mode = Normal("impl Into<" \o resolved.ty \o ">", "into")]
      [] ov.o = "custom" ->
            [resolved EXCEPT !.mode = Normal(ov.type_, ov.convert)]
      [] ov.o \in {"list", "set"} ->
            [resolved EXCEPT
                !.mode = UnaryCollection(IF ov.o = "list" THEN "List" ELSE "Set",
                                         CollectionParamConfig_parse(ov.item.opts).config)]
      [] OTHER ->
            [resolved EXCEPT
                !.mode = Map(CollectionParamConfig_parse(ov.key.opts).config,
                             CollectionParamConfig_parse(ov.value.opts).config)]

\* one step of the loop of ResolvedField::new: the effect of one option on
\* the field resolved so far
ApplyOverride(resolved, ov) ==
    CASE ov.o = "default" ->
            [resolved EXCEPT !.default = SomeDefault(ov.initializer)]
      [] ov.o = "into" ->
            [resolved EXCEPT
                !.mode = Normal("impl Into<" \o resolved.ty \o ">", "into")]
      [] ov.o = "custom" ->
            [resolved EXCEPT !.mode = Normal(ov.type_, ov.convert)]
      [] ov.o \in {"list", "set"} ->
            [resolved EXCEPT
                !.default = SomeDefault(DefaultTokens),
                !.mode = UnaryCollection(IF ov.o = "list" THEN "List" ELSE "Set",
                                         CollectionParamConfig_parse(ov.item.opts).config)]
      [] OTHER ->
            [resolved EXCEPT
                !.default = SomeDefault(DefaultTokens),
                !.mode = Map(CollectionParamConfig_parse(ov.key.opts).config,
                             CollectionParamConfig_parse(ov.value.opts).config)]

RECURSIVE ApplyOverrides(_, _, _)
ApplyOverrides(resolved, ovs, i) ==
    IF i > Len(ovs)
    THEN resolved
    ELSE ApplyOverrides(ApplyOverride(resolved, ovs[i]), ovs, i + 1)

\* Result<T, Error>: Ok(value), or Err with the messages of the error, each
\* with the identifier it points at
Ok(value) == [err |-> << >>, value |-> value]
Err(span, msg) == [err |-> << [span |-> span, msg |-> msg] >>, value |-> << >>]

\* UnaryCollectionConfig::parse taking a missing item(...) for an item
\* without options
UnaryCollectionConfig_parse_lenient(ov) ==
    IF ov.item.written /\ CollectionParamConfig_parse(ov.item.opts).err # ""
    THEN CollectionParamConfig_parse(ov.item.opts).err
    ELSE IF ov.key.written \/ ov.value.written THEN "expected item"
    ELSE ""

\* impl Parse for UnaryCollectionConfig: the sub-options of list(...) or
\* set(...) are parsed first, item(...) before any other, and a missing
\* item is reported after that
UnaryCollectionConfig_parse(ov) ==
    IF ov.item.written /\ CollectionParamConfig_parse(ov.item.opts).err # ""
    THEN CollectionParamConfig_parse(ov.item.opts).err
    ELSE IF ov.key.written \/ ov.value.written THEN "expected item"
    ELSE IF ~ov.item.written THEN "missing item configuration"
    ELSE ""

\* impl Parse for BinaryCollectionConfig: the sub-options of map(...) are
\* parsed first, in the order item, key, value, and a missing key or value
\* is reported after that
BinaryCollectionConfig_parse(ov) ==
    IF ov.item.written THEN "expected key or value"
    ELSE IF ov.key.written /\ CollectionParamConfig_parse(ov.key.opts).err # ""
    THEN CollectionParamConfig_parse(ov.key.opts).err
    ELSE IF ov.value.written /\ CollectionParamConfig_parse(ov.value.opts).err # ""
    THEN CollectionParamConfig_parse(ov.value.opts).err
    ELSE IF ~ov.key.written THEN "missing key configuration"
    ELSE IF ~ov.value.written THEN "missing value configuration"
    ELSE ""

\* impl Parse for FieldOverride and for the configurations below it: the
\* message of the error an option fails to parse with, "" when it parses
FieldOverride_parse(ov) ==
    CASE ov.o \in {"default", "into"} -> ""
      [] ov.o = "custom" ->
            IF ov.item.written \/ ov.key.written \/ ov.value.written
            THEN "expected type or convert"
            ELSE CustomConfig_parse(ov.type_, ov.convert)
      [] ov.o \in {"list", "set"} -> UnaryCollectionConfig_parse(ov)
      [] ov.o = "map" -> BinaryCollectionConfig_parse(ov)
      [] OTHER -> "expected one of: default, into, custom, list, set, map"

\* attr.parse_args_with(parse_terminated(FieldOverride::parse)): the error
\* of the first option of the attribute that fails to parse, from position
\* i on
RECURSIVE Attribute_parse(_, _)
Attribute_parse(ovs, i) ==
    IF i > Len(ovs) THEN ""
    ELSE IF FieldOverride_parse(ovs[i]) # "" THEN FieldOverride_parse(ovs[i])
    ELSE Attribute_parse(ovs, i + 1)

\* the loop over the `builder` attributes of a field, each a list of
\* options: an attribute that fails to parse ends it with that error
RECURSIVE ApplyAttrs(_, _, _)
ApplyAttrs(resolved, attrs, i) ==
    IF i > Len(attrs)
    THEN Ok(resolved)
    ELSE IF Attribute_parse(attrs[i], 1) # ""
         THEN Err(resolved.ident, Attribute_parse(attrs[i], 1))
         ELSE ApplyAttrs(ApplyOverrides(resolved, attrs[i], 1), attrs, i + 1)

\* ResolvedField::new: a field starts required, in normal mode with the
\* identity assignment, and its options are applied in the order written
ResolvedField_new(field) ==
    ApplyAttrs([ident |-> field.ident, ty |-> field.ty,
                default |-> NoneDefault,
                mode |-> Normal(field.ty, "ident")],
               field.attrs, 1)

\* the errors of the fields of rs from position i on, combined in order
RECURSIVE Combine(_, _)
Combine(rs, i) ==
    IF i > Len(rs) THEN << >> ELSE rs[i].err \o Combine(rs, i + 1)

\* resolve_fields returning the error of the first field that has one
resolve_fields_first(named) ==
    LET rs == [i \in 1..Len(named) |-> ResolvedField_new(named[i])]
        bad == {i \in 1..Len(rs) : rs[i].err # << >>}
    IN  IF bad = {}
        THEN Ok([i \in 1..Len(rs) |-> rs[i].value])
        ELSE [err |-> rs[CHOOSE i \in bad : \A j \in bad : i <= j].err,
              value |-> << >>]

\* resolve_fields: the fields resolved in declaration order, or the errors
\* of all the fields that have one, combined in that order
resolve_fields(named) ==
    LET rs == [i \in 1..Len(named) |-> ResolvedField_new(named[i])]
    IN  IF Combine(rs, 1) = << >>
        THEN Ok([i \in 1..Len(rs) |-> rs[i].value])
        ELSE [err |-> Combine(rs, 1), value |-> << >>]

(***************************************************************************)
(* Stage sequencing.                                                       *)
(***************************************************************************)
Upper ==
    [s \in {"a", "b", "c", "d", "e", "foo", "_foo", "push_foo", "build"} |->
        CASE s = "a" -> "A" [] s = "b" -> "B" [] s = "c" -> "C"
          [] s = "d" -> "D" [] s = "e" -> "E"
          [] s \in {"foo", "_foo"} -> "Foo"
          [] s = "push_foo" -> "PushFoo"
          [] OTHER -> "Build"]

\* heck's to_upper_camel_case on the identifiers of the model
to_upper_camel_case(s) == Upper[s]

stage_name(field) == to_upper_camel_case(field.ident) \o "Stage"

final_name == "Complete"

\* the positions of fs at or after `from` that have no default
RequiredFrom(fs, from) == {i \in from..Len(fs) : ~fs[i].default.some}

Min(S) == CHOOSE x \in S : \A y \in S : x <= y

\* initial_stage taking the last field without a default instead of the
\* first
initial_stage_last(fs) ==
    IF RequiredFrom(fs, 1) = {}
    THEN "None"
    ELSE stage_name(fs[CHOOSE i \in RequiredFrom(fs, 1) :
                            \A j \in RequiredFrom(fs, 1) : j <= i])

\* initial_stage: the stage of the first field without a default, if any
initial_stage(fs) ==
    IF RequiredFrom(fs, 1) = {}
    THEN "None"
    ELSE stage_name(fs[Min(RequiredFrom(fs, 1))])

\* default_field_initializers writing the initializers last field first
default_field_order_reversed(fs) ==
    LET idx == SelectSeq([i \in 1..Len(fs) |-> i], LAMBDA i : fs[i].default.some)
    IN  [k \in 1..Len(idx) |-> idx[Len(idx) + 1 - k]]

\* default_field_initializers: the initializers are written, and so
\* evaluated, in the order of the fields with a default
default_field_order(fs) ==
    SelectSeq([i \in 1..Len(fs) |-> i], LAMBDA i : fs[i].default.some)

\* default_field_initializers handing out the values of a builder made
\* earlier, when there is one, instead of evaluating the expressions
default_field_initializers_shared(fs) ==
    IF \E b \in other : b.stage = "Complete"
    THEN LET b == CHOOSE b \in other : b.stage = "Complete"
         IN  [i \in {j \in 1..Len(fs) : fs[j].default.some} |-> b.vals[i]]
    ELSE [i \in {j \in 1..Len(fs) : fs[j].default.some} |->
            EvalInitializer(fs[i].default.initializer, fs[i].ty)]

\* default_field_initializers: every field with a default, initialised with
\* the value of its default expression
default_field_initializers(fs) ==
    [i \in {j \in 1..Len(fs) : fs[j].default.some} |->
        EvalInitializer(fs[i].default.initializer, fs[i].ty)]

\* expand: one stage type for each field without a default, in the order of
\* the fields
expand_stages(fs) ==
    LET idx == SelectSeq([i \in 1..Len(fs) |-> i], LAMBDA i : ~fs[i].default.some)
    IN  [k \in 1..Len(idx) |-> stage_name(fs[idx[k]])]

\* the position of the required field whose stage type is named `name`
StageIndex(fs, name) ==
    CHOOSE i \in RequiredFrom(fs, 1) : stage_name(fs[i]) = name

\* a setter that stores its argument as given, whatever the conversion
Assign_unconverted(mode, x) == x

\* the `assign` expression of a normal field applied to the setter argument
Assign(mode, x) ==
    CASE mode.assign = "ident" -> x
      [] mode.assign = "into" -> Into_into(x)
      [] OTHER -> Call(mode.assign, x)

\* a builder value Builder<stage>: the stage type and the fields it holds
BuilderOf(stage, vals) == [stage |-> stage, vals |-> vals]

\* default_impl without the initializers of the defaultable fields
default_impl_empty(fs) ==
    IF initial_stage(fs) = "None"
    THEN BuilderOf(final_name, << >>)
    ELSE BuilderOf(initial_stage(fs), << >>)

\* default_impl: Default::default() of the initial builder type
default_impl(fs) ==
    IF initial_stage(fs) = "None"
    THEN BuilderOf(final_name, default_field_initializers(fs))
    ELSE BuilderOf(initial_stage(fs), << >>)

\* builder_impl: Struct::builder()
builder_impl(fs) == default_impl(fs)

\* stage looking for the next required field one position too far
stage_skipping(fs, idx, self, x) ==
    LET existing_names == {i \in 1..(idx - 1) : ~fs[i].default.some}
        later == RequiredFrom(fs, idx + 2)
        next_builder ==
            IF later = {} THEN final_name ELSE stage_name(fs[Min(later)])
        optional_fields ==
            IF later = {} THEN default_field_initializers(fs) ELSE << >>
    IN  BuilderOf(next_builder,
                  [i \in existing_names \cup {idx} \cup DOMAIN optional_fields |->
                      IF i \in existing_names THEN self.vals[i]
                      ELSE IF i = idx THEN Assign(fs[idx].mode, x)
                      ELSE optional_fields[i]])

\* stage converting the fields the builder already holds once more
stage_reassigning(fs, idx, self, x) ==
    LET existing_names == {i \in 1..(idx - 1) : ~fs[i].default.some}
        later == RequiredFrom(fs, idx + 1)
        next_builder ==
            IF later = {} THEN final_name ELSE stage_name(fs[Min(later)])
        optional_fields ==
            IF later = {} THEN default_field_initializers(fs) ELSE << >>
    IN  BuilderOf(next_builder,
                  [i \in existing_names \cup {idx} \cup DOMAIN optional_fields |->
                      IF i \in existing_names THEN Assign(fs[i].mode, self.vals[i])
                      ELSE IF i = idx THEN Assign(fs[idx].mode, x)
                      ELSE optional_fields[i]])

\* stage: the setter of the stage of field idx, applied to self and x
stage(fs, idx, self, x) ==
    LET existing_names == {i \in 1..(idx - 1) : ~fs[i].default.some}
        later == RequiredFrom(fs, idx + 1)
        next_builder ==
            IF later = {} THEN final_name ELSE stage_name(fs[Min(later)])
        optional_fields ==
            IF later = {} THEN default_field_initializers(fs) ELSE << >>
    IN  BuilderOf(next_builder,
                  [i \in existing_names \cup {idx} \cup DOMAIN optional_fields |->
                      IF i \in existing_names THEN self.vals[i]
                      ELSE IF i = idx THEN Assign(fs[idx].mode, x)
                      ELSE optional_fields[i]])

\* final_stage_setter: the names of the methods written for a field with a
\* default, in the order written
final_stage_setter_names(field) ==
    CASE field.mode.kind = "Normal" -> <<field.ident>>
      [] field.mode.kind = "List" ->
            <<"push_" \o field.ident, field.ident, "extend_" \o field.ident>>
      [] OTHER ->
            <<"insert_" \o field.ident, field.ident, "extend_" \o field.ident>>

\* final_stage: the names of the methods of impl Builder<Complete>, the
\* setters of the fields with a default and then build
RECURSIVE final_stage_names(_, _)
final_stage_names(fs, i) ==
    IF i > Len(fs) THEN <<"build">>
    ELSE IF fs[i].default.some
         THEN final_stage_setter_names(fs[i]) \o final_stage_names(fs, i + 1)
         ELSE final_stage_names(fs, i + 1)

(***************************************************************************)
(* The collection types of the tests: Vec, HashSet and HashMap (a map is   *)
(* the set of its entries, one entry for each key).                        *)
(***************************************************************************)
Range(s) == {s[i] : i \in DOMAIN s}

Vec_push(c, x) == Append(c, x)

HashSet_insert(c, x) == c \cup {x}

HashMap_insert(m, k, v) == {e \in m : e[1] # k} \cup {<<k, v>>}

\* inserting the entries of s from position i on, in order
RECURSIVE HashMap_extend(_, _, _)
HashMap_extend(m, s, i) ==
    IF i > Len(s)
    THEN m
    ELSE HashMap_extend(HashMap_insert(m, s[i][1], s[i][2]), s, i + 1)

\* FromIterator::from_iter of the field type
FromIterator_from_iter(ty, s) ==
    CASE ty = "list" -> s
      [] ty = "set" -> Range(s)
      [] OTHER -> HashMap_extend({}, s, 1)

\* Extend::extend of the field type
Extend_extend(ty, c, s) ==
    CASE ty = "list" -> c \o s
      [] ty = "set" -> c \cup Range(s)
      [] OTHER -> HashMap_extend(c, s, 1)

(***************************************************************************)
(* The setters of the final stage (final_stage_setter).                    *)
(***************************************************************************)
\* a setter that, besides storing its argument, puts every other field with
\* a default back to its default
normal_setter_resetting(fs, f, self, x) ==
    [self EXCEPT !.vals =
        [i \in DOMAIN @ |->
            IF i = f THEN Assign(fs[f].mode, x)
            ELSE IF fs[i].default.some THEN default_field_initializers(fs)[i]
            ELSE @[i]]]

\* FieldMode::Normal: self.0.name = assign
normal_setter(fs, f, self, x) ==
    [self EXCEPT !.vals[f] = Assign(fs[f].mode, x)]

\* FieldMode::UnaryCollection: push_name / insert_name
push_method(fs, f, self, x) ==
    [self EXCEPT !.vals[f] =
        IF fs[f].mode.kind = "List"
        THEN Vec_push(@, convert(fs[f].mode.item, x))
        ELSE HashSet_insert(@, convert(fs[f].mode.item, x))]

\* a plural setter that adds to the collection instead of replacing it
plural_setter_merging(fs, f, self, s) ==
    [self EXCEPT !.vals[f] =
        Extend_extend(fs[f].ty, @, convert_iter(fs[f].mode.item, s))]

\* FieldMode::UnaryCollection: the setter named after the field
plural_setter(fs, f, self, s) ==
    [self EXCEPT !.vals[f] =
        FromIterator_from_iter(fs[f].ty, convert_iter(fs[f].mode.item, s))]

\* FieldMode::UnaryCollection: extend_name
extend_method(fs, f, self, s) ==
    [self EXCEPT !.vals[f] =
        Extend_extend(fs[f].ty, @, convert_iter(fs[f].mode.item, s))]

\* iter_convert converting the entries only when both the key and the value
\* have a conversion
iter_convert_coupled(key, value, s) ==
    IF key.convert_fn # "None" /\ value.convert_fn # "None"
    THEN [i \in 1..Len(s) |-> <<convert(key, s[i][1]), convert(value, s[i][2])>>]
    ELSE s

\* FieldMode::Map: iter_convert, the conversion of a sequence of entries
iter_convert(key, value, s) ==
    IF key.convert_fn # "None" \/ value.convert_fn # "None"
    THEN [i \in 1..Len(s) |-> <<convert(key, s[i][1]), convert(value, s[i][2])>>]
    ELSE s

\* FieldMode::Map: insert_name
insert_method(fs, f, self, k, v) ==
    [self EXCEPT !.vals[f] =
        HashMap_insert(@, convert(fs[f].mode.key, k), convert(fs[f].mode.value, v))]

\* FieldMode::Map: the setter named after the field
map_setter(fs, f, self, s) ==
    [self EXCEPT !.vals[f] =
        FromIterator_from_iter(fs[f].ty,
                               iter_convert(fs[f].mode.key, fs[f].mode.value, s))]

\* FieldMode::Map: extend_name
map_extend_method(fs, f, self, s) ==
    [self EXCEPT !.vals[f] =
        Extend_extend(fs[f].ty, @,
                      iter_convert(fs[f].mode.key, fs[f].mode.value, s))]

(***************************************************************************)
(* build.                                                                  *)
(***************************************************************************)
\* a build that evaluates the default expression of every field no setter
\* was called on, instead of taking what the final stage holds
Assemble_lazy(fs, self) ==
    [i \in 1..Len(fs) |->
        IF fs[i].default.some /\ i \notin DOMAIN lastSet
        THEN EvalInitializer(fs[i].default.initializer, fs[i].ty)
        ELSE self.vals[i]]

\* the struct literal of build: every field taken from the final stage
Assemble(fs, self) == [i \in 1..Len(fs) |-> self.vals[i]]

\* the Validate implementation of the tests (test.rs, impl Validate for
\* Validated): a value with an odd number in a plain field is rejected
Validate_validate(fs, value) ==
    IF \E i \in 1..Len(fs) : fs[i].ty = "int" /\ value[i] % 2 # 0
    THEN [ok |-> FALSE,
          error |-> <<"is odd",
                      Min({i \in 1..Len(fs) : fs[i].ty = "int" /\ value[i] % 2 # 0})>>]
    ELSE [ok |-> TRUE, error |-> << >>]

NoValue == << >>

\* the value returned by build
Result(status, value, error) == [status |-> status, value |-> value, error |-> error]

\* unvalidated_build: the assembled value; `validated` lists the values
\* given to Validate::validate on the way
unvalidated_build(fs, self) ==
    [result |-> Result("value", Assemble(fs, self), << >>), validated |-> << >>]

\* validated_build returning Ok(value) without calling validate
validated_build_unchecked(fs, self) ==
    [result |-> Result("Ok", Assemble(fs, self), << >>), validated |-> << >>]

\* validated_build wrapping the error of the contract in one of its own
validated_build_wrapping(fs, self) ==
    LET value == Assemble(fs, self)
        verdict == Validate_validate(fs, value)
    IN  [result |-> IF verdict.ok
                    THEN Result("Ok", value, << >>)
                    ELSE Result("Err", NoValue, <<"invalid", verdict.error>>),
         validated |-> <<value>>]

\* validated_build: Err(e) when validate(&value) is Err(e), else Ok(value)
validated_build(fs, self) ==
    LET value == Assemble(fs, self)
        verdict == Validate_validate(fs, value)
    IN  [result |-> IF verdict.ok
                    THEN Result("Ok", value, << >>)
                    ELSE Result("Err", NoValue, verdict.error),
         validated |-> <<value>>]

\* final_stage emitting the validated build whatever the struct options
build_always_validated(ovr, fs, self) == validated_build(fs, self)

\* final_stage: the build method emitted for the struct options
build(ovr, fs, self) ==
    IF ovr.validate THEN validated_build(fs, self) ELSE unvalidated_build(fs, self)

\* StructOverrides::new: the options of the struct, each `validate`; any
\* other is an error, and the first one ends the parse
StructOverrides_new(attrs) ==
    IF \A i \in 1..Len(attrs) : attrs[i] = "validate"
    THEN Ok([validate |-> "validate" \in Range(attrs)])
    ELSE Err("struct", "expected validate")

(***************************************************************************)
(* The inputs of the model.                                                *)
(***************************************************************************)
\* the sequences over A of length at most n
SeqsUpTo(A, n) == UNION {[1..k -> A] : k \in 0..n}

\* the field declarations of the model, by name: a type and its `builder`
\* attributes
FieldDecl(ty, attrs) == [ty |-> ty, attrs |-> attrs]

CollectionDecls ==
    {"list", "set", "map", "list_custom", "list_closure", "set_custom_into",
     "map_value", "map_both", "map_into", "map_custom_into"}

DeclNames == {"required", "into", "default", "default_expr", "list", "set", "map"}

Decl(k) ==
    CASE k = "required" -> FieldDecl("int", << >>)
      [] k = "into" -> FieldDecl("int", << <<IntoOv>> >>)
      [] k = "default" ->
            FieldDecl("int", << <<DefaultOv(DefaultTokens)>>,
                                <<CustomOv("impl Display", "to_string")>> >>)
      [] k = "default_expr" -> FieldDecl("int", << <<DefaultOv("42")>> >>)
      [] k = "default_now" -> FieldDecl("int", << <<DefaultOv("now()")>> >>)
      [] k = "custom" ->
            FieldDecl("int", << <<CustomOv("impl Display", "to_string")>> >>)
      [] k = "closure" ->
            FieldDecl("int", << <<CustomOv("impl Display", ClosureTokens)>> >>)
      [] k = "custom_into" ->
            FieldDecl("int", << <<CustomOv("impl Into<int>", "Into::into")>> >>)
      [] k = "bogus" ->
            FieldDecl("int", << <<Override("bogus", "", "", "", NoParam, NoParam,
                                           NoParam)>> >>)
      [] k = "custom_no_type" -> FieldDecl("int", << <<CustomOv("", "to_string")>> >>)
      [] k = "list_no_type" -> FieldDecl("list", << <<ListOv(<<IntoOpt>>)>> >>)
      [] k = "two_bad" ->
            FieldDecl("int", << <<Override("bogus", "", "", "", NoParam, NoParam,
                                           NoParam)>>,
                                <<CustomOv("", "to_string")>> >>)
      [] k = "into_custom" ->
            FieldDecl("int", << <<IntoOv, CustomOv("impl Display", "to_string")>> >>)
      [] k = "custom_then_into" ->
            FieldDecl("int", << <<CustomOv("impl Display", "to_string"), IntoOv>> >>)
      [] k = "list_set" ->
            FieldDecl("set", << <<ListOv(<<TypeOpt("u32")>>),
                                  SetOv(<<TypeOpt("u32")>>)>> >>)
      [] k = "item_into_custom" ->
            FieldDecl("list",
                      << <<ListOv(<<TypeOpt("u32"), IntoOpt,
                                    CustomOpt("impl Display", "to_string")>>)>> >>)
      [] k = "default_into" ->
            FieldDecl("int", << <<DefaultOv(DefaultTokens), IntoOv>> >>)
      [] k = "default_custom_into" ->
            FieldDecl("int", << <<DefaultOv(DefaultTokens),
                                  CustomOv("impl Into<int>", "Into::into")>> >>)
      [] k = "list_custom" ->
            FieldDecl("list",
                      << <<ListOv(<<CustomOpt("impl Display", "to_string")>>)>> >>)
      [] k = "list_closure" ->
            FieldDecl("list",
                      << <<ListOv(<<CustomOpt("impl Display", ClosureTokens)>>)>> >>)
      [] k = "set_custom_into" ->
            FieldDecl("set",
                      << <<SetOv(<<CustomOpt("impl Into<u32>", "Into::into")>>)>> >>)
      [] k = "map_value" ->
            FieldDecl("map", << <<MapOv(<<TypeOpt("u32")>>,
                                        <<TypeOpt("bool"), IntoOpt>>)>> >>)
      [] k = "map_both" ->
            FieldDecl("map", << <<MapOv(<<TypeOpt("u32"), IntoOpt>>,
                                        <<CustomOpt("impl Display", "to_string")>>)>> >>)
      [] k = "map_into" ->
            FieldDecl("map", << <<MapOv(<<TypeOpt("u32"), IntoOpt>>,
                                        <<TypeOpt("bool"), IntoOpt>>)>> >>)
      [] k = "map_custom_into" ->
            FieldDecl("map",
                      << <<MapOv(<<CustomOpt("impl Into<u32>", "Into::into")>>,
                                 <<CustomOpt("impl Into<bool>", "Into::into")>>)>> >>)
      [] k = "custom_no_convert" ->
            FieldDecl("int", << <<CustomOv("impl Display", "")>> >>)
      [] k = "custom_bogus" ->
            FieldDecl("int", << <<Override("custom", "", "impl Display", "to_string",
                                           Written(<< >>), NoParam, NoParam)>> >>)
      [] k = "list_no_item" ->
            FieldDecl("list", << <<Override("list", "", "", "", NoParam, NoParam,
                                            NoParam)>> >>)
      [] k = "set_no_item" ->
            FieldDecl("set", << <<Override("set", "", "", "", NoParam, NoParam,
                                           NoParam)>> >>)
      [] k = "list_bogus" ->
            FieldDecl("list", << <<Override("list", "", "", "",
                                            Written(<<TypeOpt("u32")>>),
                                            Written(<<TypeOpt("u32")>>), NoParam)>> >>)
      [] k = "map_no_key" ->
            FieldDecl("map", << <<Override("map", "", "", "", NoParam, NoParam,
                                           Written(<<TypeOpt("u32")>>))>> >>)
      [] k = "map_no_value" ->
            FieldDecl("map", << <<Override("map", "", "", "", NoParam,
                                           Written(<<TypeOpt("u32")>>), NoParam)>> >>)
      [] k = "map_bogus" ->
            FieldDecl("map", << <<Override("map", "", "", "",
                                           Written(<<TypeOpt("u32")>>),
                                           Written(<<TypeOpt("u32")>>),
                                           Written(<<TypeOpt("u32")>>))>> >>)
      [] k = "item_bogus" ->
            FieldDecl("list",
                      << <<ListOv(<<TypeOpt("u32"),
                                    [k |-> "bogus", type_ |-> "", convert |-> ""]>>)>> >>)
      [] k = "key_bogus" ->
            FieldDecl("map",
                      << <<MapOv(<<[k |-> "bogus", type_ |-> "", convert |-> ""]>>,
                                 <<TypeOpt("u32")>>)>> >>)
      [] k = "value_bogus" ->
            FieldDecl("map",
                      << <<MapOv(<<TypeOpt("u32")>>,
                                 <<[k |-> "bogus", type_ |-> "", convert |-> ""]>>)>> >>)
      [] k = "item_custom_no_type" ->
            FieldDecl("list", << <<ListOv(<<CustomOpt("", "to_string")>>)>> >>)
      [] k = "item_custom_no_convert" ->
            FieldDecl("set", << <<SetOv(<<CustomOpt("impl Display", "")>>)>> >>)
      [] k = "key_no_type" ->
            FieldDecl("map", << <<MapOv(<<IntoOpt>>, <<TypeOpt("u32")>>)>> >>)
      [] k = "value_no_type" ->
            FieldDecl("map", << <<MapOv(<<TypeOpt("u32")>>, << >>)>> >>)
      [] k = "list" -> FieldDecl("list", << <<ListOv(<<TypeOpt("u32")>>)>> >>)
      [] k = "set" -> FieldDecl("set", << <<SetOv(<<TypeOpt("u32"), IntoOpt>>)>> >>)
      [] OTHER ->
            FieldDecl("map", << <<MapOv(<<CustomOpt("impl Display", "to_string")>>,
                                        <<TypeOpt("bool")>>)>> >>)

\* the named fields of a struct declaring ks in order under the names ids
Named(ids, ks) ==
    [i \in 1..Len(ks) |->
        [ident |-> ids[i], ty |-> Decl(ks[i]).ty, attrs |-> Decl(ks[i]).attrs]]

\* the named fields of a struct declaring ks in order, named a, b, c, ...
NamedFields(ks) == Named(Idents, ks)

\* a derive input: the kind of item ("named" for a struct with named
\* fields, "tuple", "unit", "enum", "union"), the options of its `builder`
\* attributes, and the names and declarations of its fields
DeriveInput(data, attrs, ids, ks) ==
    [data |-> data, attrs |-> attrs, idents |-> ids, decls |-> ks,
     named |-> Named(ids, ks)]

\* a struct with named fields a, b, c, ...
Struct(attrs, ks) ==
    DeriveInput("named", attrs, [i \in 1..Len(ks) |-> Idents[i]], ks)

\* the match on the mode of a field at the head of `stage`, which expand
\* calls on every field without a default
stage_mode(field) ==
    IF field.mode.kind = "Normal" THEN "Normal" ELSE "unreachable"

\* expand looking at the kind of the item last, after the options of the
\* struct and of the fields
expand_kind_last(inp) ==
    LET o == StructOverrides_new(inp.attrs)
        r == resolve_fields(inp.named)
        Failed(err) == [status |-> "Err", errors |-> err,
                        overrides |-> [validate |-> FALSE], fields |-> << >>]
    IN  IF o.err # << >> THEN Failed(o.err)
        ELSE IF r.err # << >> THEN Failed(r.err)
        ELSE IF inp.data \in {"enum", "union"}
        THEN Failed(Err("item", "staged builders can only be derived on structs").err)
        ELSE IF inp.data # "named"
        THEN Failed(Err("item",
                "staged builders cannot be derived on tuple or unit structs").err)
        ELSE [status |-> "Ok", errors |-> << >>,
              overrides |-> o.value, fields |-> r.value]

\* expand: the kind of the item first, then the options of the struct, then
\* the fields; each error is returned at once, and only without one is the
\* builder written
expand(inp) ==
    LET o == StructOverrides_new(inp.attrs)
        r == resolve_fields(inp.named)
        Failed(err) == [status |-> "Err", errors |-> err,
                        overrides |-> [validate |-> FALSE], fields |-> << >>]
    IN  IF inp.data \in {"enum", "union"}
        THEN Failed(Err("item", "staged builders can only be derived on structs").err)
        ELSE IF inp.data # "named"
        THEN Failed(Err("item",
                "staged builders cannot be derived on tuple or unit structs").err)
        ELSE IF o.err # << >>
        THEN [status |-> "Err", errors |-> o.err,
              overrides |-> [validate |-> FALSE], fields |-> << >>]
        ELSE IF r.err # << >>
        THEN [status |-> "Err", errors |-> r.err,
              overrides |-> [validate |-> FALSE], fields |-> << >>]
        ELSE IF \E i \in 1..Len(r.value) :
                    ~r.value[i].default.some /\ stage_mode(r.value[i]) = "unreachable"
        THEN [status |-> "Panic", errors |-> << >>,
              overrides |-> [validate |-> FALSE], fields |-> << >>]
        ELSE [status |-> "Ok", errors |-> << >>,
              overrides |-> o.value, fields |-> r.value]

\* the schemas over the declarations D: the sequences of declarations of
\* size at most MaxFields, a collection counting for two
SchemasOver(D) ==
    {ks \in SeqsUpTo(D, MaxFields) :
        Len(ks) + Cardinality({i \in DOMAIN ks : ks[i] \in CollectionDecls})
            <= MaxFields}

Schemas == SchemasOver(DeclNames)

\* the derive inputs: the struct attributes and the declarations of a struct
\* with named fields
Inputs ==
    {Struct(a, ks) : a \in {<< >>, <<"validate">>}, ks \in Schemas}

\* the sequences given to the plural setters and to extend
ArgSeqs(A) == SeqsUpTo(A, 2)

\* the entries given to the operations of a map field
Entries == {<<1, 1>>, <<1, 2>>, <<2, 1>>}

\* the sequences of items and of entries given to the plural operations
ItemSeqs == ArgSeqs(Args)

EntrySeqs == ArgSeqs(Entries)

(***************************************************************************)
(* The operations of the caller.                                           *)
(***************************************************************************)
Op(op, f, n) == [op |-> op, f |-> f, n |-> n]

\* the number of items of a field value
Size(ty, v) ==
    CASE ty = "list" -> Len(v)
      [] ty \in {"set", "map"} -> Cardinality(v)
      [] OTHER -> 0

NoResult == Result("none", NoValue, << >>)

\* the state after the macro has expanded on one of the structs of S
InitFrom(S) ==
    /\ input \in S
    /\ expansion = [status |-> expand(input).status, errors |-> expand(input).errors]
    /\ overrides = expand(input).overrides
    /\ fields = expand(input).fields
    /\ live = {}
    /\ result = NoResult
    /\ validated = << >>
    /\ lastOp = Op("none", 0, 0)
    /\ called = << >>
    /\ args = << >>
    /\ lastSet = << >>
    /\ clock = 0
    /\ other = {}
    /\ evals = << >>
    /\ evalOrder = << >>

Init == InitFrom(Inputs)

\* a receiver that leaves the builder value with the caller
Consume_borrowed(owned, self) == owned

\* a by-value `self` receiver: the builder value is moved out of the
\* caller's hands
Consume(owned, self) == owned \ {self}

\* a final stage with the setters of every field, required ones included
Settable_all(f, kinds) == fields[f].mode.kind \in kinds

\* final_stage: a field has setters on the final stage when it has a
\* default; final_stage_setter: which ones, by the kind of its mode
Settable(f, kinds) == fields[f].default.some /\ fields[f].mode.kind \in kinds

\* f |-> v added to (or replaced in) the function h
Record(h, f, v) == [i \in DOMAIN h \cup {f} |-> IF i = f THEN v ELSE h[i]]

\* the fields whose default expression an operation evaluated: those with
\* a default that `after` holds and `before` did not
Evaluated(before, after) ==
    {f \in DOMAIN after.vals \ DOMAIN before.vals : fields[f].default.some}

\* the fields of S in the order their initializers are evaluated in
InOrderOf(S) == SelectSeq(default_field_order(fields), LAMBDA f : f \in S)

\* the evaluations so far and one more, now, for each field of S
Note(S) ==
    [f \in DOMAIN evals \cup S |->
        IF f \in S
        THEN Append(IF f \in DOMAIN evals THEN evals[f] ELSE << >>, clock)
        ELSE evals[f]]

\* Struct::builder()
Builder ==
    /\ expansion.status = "Ok"
    /\ lastOp.op = "none"
    /\ live' = {builder_impl(fields)}
    /\ lastOp' = Op("builder", 0, 0)
    /\ evals' = Note(Evaluated(BuilderOf("", << >>), builder_impl(fields)))
    /\ evalOrder' = evalOrder \o InOrderOf(Evaluated(BuilderOf("", << >>),
                                                     builder_impl(fields)))
    /\ UNCHANGED <<input, expansion, overrides, fields, result, validated, called, args,
                   lastSet, clock, other>>

\* the setter of a stage before the final one
StageSetter(self, x) ==
    /\ self.stage # final_name
    /\ LET idx == StageIndex(fields, self.stage)
       IN  /\ live' = Consume(live, self) \cup {stage(fields, idx, self, x)}
           /\ lastOp' = Op("stage", idx, 0)
           /\ called' = Append(called, idx)
           /\ args' = Record(args, idx, x)
           /\ evals' = Note(Evaluated(self, stage(fields, idx, self, x)))
           /\ evalOrder' = evalOrder
                               \o InOrderOf(Evaluated(self, stage(fields, idx, self, x)))
    /\ UNCHANGED <<input, expansion, overrides, fields, result, validated, lastSet,
                   clock, other>>

\* the common part of the operations of the final stage
FinalOp(self, next, op, f) ==
    /\ live' = Consume(live, self) \cup {next}
    /\ lastOp' = Op(op, f, Size(fields[f].ty, self.vals[f]))
    /\ lastSet' = Record(lastSet, f, next.vals[f])
    /\ UNCHANGED <<input, expansion, overrides, fields, result, validated, called, args,
                   clock, other, evals, evalOrder>>

\* the setter of a normal field with a default
NormalSetter(self, f, x) ==
    /\ self.stage = final_name
    /\ Settable(f, {"Normal"})
    /\ FinalOp(self, normal_setter(fields, f, self, x), "set", f)

\* push_name (list) and insert_name (set)
Push(self, f, x) ==
    /\ self.stage = final_name
    /\ Settable(f, {"List", "Set"})
    /\ fields[f].mode.kind = "List" => Len(self.vals[f]) < MaxLen
    /\ FinalOp(self, push_method(fields, f, self, x), "push", f)

\* the plural setter of a list or set field
PluralSetter(self, f, s) ==
    /\ self.stage = final_name
    /\ Settable(f, {"List", "Set"})
    /\ FinalOp(self, plural_setter(fields, f, self, s), "plural", f)

\* extend_name of a list or set field
Extend(self, f, s) ==
    /\ self.stage = final_name
    /\ Settable(f, {"List", "Set"})
    /\ fields[f].mode.kind = "List" => Len(self.vals[f]) + Len(s) <= MaxLen
    /\ FinalOp(self, extend_method(fields, f, self, s), "extend", f)

\* insert_name of a map field
Insert(self, f, e) ==
    /\ self.stage = final_name
    /\ Settable(f, {"Map"})
    /\ FinalOp(self, insert_method(fields, f, self, e[1], e[2]), "insert", f)

\* the plural setter of a map field
MapSetter(self, f, s) ==
    /\ self.stage = final_name
    /\ Settable(f, {"Map"})
    /\ FinalOp(self, map_setter(fields, f, self, s), "plural", f)

\* extend_name of a map field
MapExtend(self, f, s) ==
    /\ self.stage = final_name
    /\ Settable(f, {"Map"})
    /\ FinalOp(self, map_extend_method(fields, f, self, s), "extend", f)

\* build
Build(self) ==
    /\ self.stage = final_name
    /\ live' = Consume(live, self)
    /\ result' = build(overrides, fields, self).result
    /\ validated' = validated \o build(overrides, fields, self).validated
    /\ lastOp' = Op("build", 0, 0)
    /\ UNCHANGED <<input, expansion, overrides, fields, called, args, lastSet, clock,
                   other, evals, evalOrder>>

Next ==
    \/ Builder
    \/ \E self \in live :
        \/ \E x \in Args : StageSetter(self, x)
        \/ \E f \in 1..Len(fields) :
            \/ \E x \in Args : NormalSetter(self, f, x)
            \/ \E x \in Args : Push(self, f, x)
            \/ \E s \in ItemSeqs : PluralSetter(self, f, s)
            \/ \E s \in ItemSeqs : Extend(self, f, s)
            \/ \E e \in Entries : Insert(self, f, e)
            \/ \E s \in EntrySeqs : MapSetter(self, f, s)
            \/ \E s \in EntrySeqs : MapExtend(self, f, s)
        \/ Build(self)

Spec == Init /\ [][Next]_vars

(***************************************************************************)
(* What the declarations of a schema promise, read off the declarations    *)
(* themselves.                                                             *)
(***************************************************************************)
decls == input.decls

validate == "validate" \in Range(input.attrs)

\* the positions declared without a default, and those in increasing order
RequiredPositions == {i \in DOMAIN decls : decls[i] \in {"required", "into"}}

InOrder(S) ==
    CHOOSE q \in [1..Cardinality(S) -> S] :
        \A i, j \in 1..Cardinality(S) : i < j => q[i] < q[j]

RequiredInOrder == InOrder(RequiredPositions)

\* the value a setter of declaration k stores for the argument x
ExpectedStored(k, x) ==
    CASE k = "into" -> Into_into(x)
      [] k = "default" -> to_string(x)
      [] OTHER -> x

\* the default of declaration k
ExpectedDefault(k) ==
    CASE k = "default" -> 0
      [] k = "default_expr" -> 42
      [] k = "list" -> << >>
      [] OTHER -> {}

\* the value a completed construction is to hold: the converted argument of
\* each stage setter, the result of the last final-stage operation on a
\* field that was set, the default of a field that was not
ExpectedValue ==
    [i \in 1..Len(decls) |->
        IF i \in RequiredPositions THEN ExpectedStored(decls[i], args[i])
        ELSE IF i \in DOMAIN lastSet THEN lastSet[i]
        ELSE ExpectedDefault(decls[i])]

Built == result.status # "none"

\* some operation of the final stage on field f is offered on self
FinalOpOffered(self, f) ==
    \/ ENABLED (\E x \in Args : NormalSetter(self, f, x))
    \/ ENABLED (\E x \in Args : Push(self, f, x))
    \/ ENABLED (\E s \in ItemSeqs : PluralSetter(self, f, s))
    \/ ENABLED (\E s \in ItemSeqs : Extend(self, f, s))
    \/ ENABLED (\E e \in Entries : Insert(self, f, e))
    \/ ENABLED (\E s \in EntrySeqs : MapSetter(self, f, s))
    \/ ENABLED (\E s \in EntrySeqs : MapExtend(self, f, s))

\* C1: the final stage is reached, and build is called, only after the
\* setter of every required field was called once, in declaration order; a
\* builder before the final stage offers the setter of the next required
\* field and nothing else: not build, not a setter of the final stage.
C1_RequiredSettersInOrder ==
    /\ Built => called = RequiredInOrder
    /\ \A self \in live :
        /\ called = SubSeq(RequiredInOrder, 1, Len(called))
        /\ self.stage = final_name => called = RequiredInOrder
        /\ self.stage # final_name =>
            /\ Len(called) < Len(RequiredInOrder)
            /\ ENABLED (\E x \in Args : StageSetter(self, x))
            /\ StageIndex(fields, self.stage) = RequiredInOrder[Len(called) + 1]
            /\ ~ENABLED Build(self)
            /\ \A f \in 1..Len(fields) : ~FinalOpOffered(self, f)

\* a construction of a schema with a default between two required fields
\* went through both stages and was built
C1_Witness ==
    /\ Built
    /\ called = <<1, 3>>

\* the stage type of the required field at position i
StageOf(i) == to_upper_camel_case(Idents[i]) \o "Stage"

\* the stage type that follows position i: that of the next required
\* position, the final stage when there is none
StageAfter(i) ==
    IF \E j \in RequiredPositions : j > i
    THEN StageOf(Min({j \in RequiredPositions : j > i}))
    ELSE "Complete"

\* C2: the macro emits one stage type for each field without a default, in
\* declaration order; builder() returns the stage of the first required
\* field, and the setter of a stage returns the stage of the next required
\* field, or the final stage when no required field follows.
C2_StagesFollowDeclarationOrder ==
    /\ Len(expand_stages(fields)) = Cardinality(RequiredPositions)
    /\ \A k \in 1..Cardinality(RequiredPositions) :
            /\ k \in DOMAIN expand_stages(fields)
            /\ expand_stages(fields)[k] = StageOf(RequiredInOrder[k])
    /\ lastOp.op = "builder" =>
            /\ live # {}
            /\ \A self \in live : self.stage = StageAfter(0)
    /\ lastOp.op = "stage" =>
            /\ live # {}
            /\ \A self \in live : self.stage = StageAfter(lastOp.f)

\* the setter of the first stage skipped a defaultable field and led to the
\* stage of the third field
C2_Witness ==
    /\ decls = <<"required", "default", "into">>
    /\ lastOp = Op("stage", 1, 0)
    /\ \E self \in live : self.stage = "CStage"

\* C3: when every field has a default (or there is no field), builder()
\* returns the final stage with every field holding its default, build is
\* offered on it at once, and Complete is the only stage of the builder.
C3_NoRequiredFieldStartsComplete ==
    RequiredPositions = {} =>
        /\ \A self \in live : self.stage = "Complete"
        /\ called = << >>
        /\ lastOp.op = "builder" =>
            /\ live # {}
            /\ \A self \in live :
                /\ DOMAIN self.vals = 1..Len(decls)
                /\ \A i \in 1..Len(decls) :
                        i \in DOMAIN self.vals
                        /\ self.vals[i] = ExpectedDefault(decls[i])
                /\ ENABLED Build(self)

\* builder() of a schema of two defaultable fields was just called
C3_Witness ==
    /\ decls = <<"default_expr", "default">>
    /\ lastOp.op = "builder"
    /\ \E self \in live : self.stage = "Complete"

\* C4: a completed construction returns the value that holds the converted
\* argument of each stage setter, the result of the last final-stage
\* operation on each defaultable field that was set, and the default
\* (the explicit expression, else Default::default()) of each that was not.
C4_BuiltValue ==
    result.status \in {"value", "Ok"} =>
        /\ DOMAIN result.value = 1..Len(decls)
        /\ result.value = ExpectedValue

\* a value was built with a converted required field, a defaultable field
\* left at its explicit default
C4_Witness ==
    /\ decls = <<"into", "default_expr", "default">>
    /\ result.status = "value"
    /\ DOMAIN lastSet = {3}
    /\ result.value = <<12, 42, 21>>

\* C5: the caller never owns two builder values of one construction: every
\* operation moves the builder it is applied to, so there is one path from
\* the initial stage to the built value, and nothing is offered after build.
C5_LinearPath ==
    /\ Cardinality(live) <= 1
    /\ lastOp.op \notin {"none", "build"} => Cardinality(live) = 1
    /\ Built => live = {} /\ ~ENABLED Next

\* a stage setter, a final-stage setter and build were applied in turn
C5_Witness ==
    /\ Built
    /\ live = {}
    /\ called # << >>
    /\ DOMAIN lastSet # {}

\* C6: with `validate`, Validate::validate is called once in a construction
\* that is built, by build and on the value assembled from all the fields;
\* before build (whatever setters were called) it has not been called.
C6_ValidatedOnceAtBuild ==
    validate =>
        /\ ~Built => validated = << >>
        /\ Built => validated = <<ExpectedValue>>

\* a validated construction was built after a stage setter and a setter of
\* the final stage
C6_Witness ==
    /\ validate
    /\ Built
    /\ Len(validated) = 1
    /\ called # << >>
    /\ DOMAIN lastSet # {}

\* C7: with `validate`, build returns Ok of the assembled value exactly when
\* the contract accepts that value; when the contract rejects it, build
\* returns Err of the contract's own error and no value.
C7_BuildReturnsContractVerdict ==
    validate /\ Built =>
        LET verdict == Validate_validate(fields, ExpectedValue)
        IN  /\ result.status = "Ok" <=> verdict.ok
            /\ verdict.ok => result = Result("Ok", ExpectedValue, << >>)
            /\ ~verdict.ok => result = Result("Err", NoValue, verdict.error)

\* build returned the error of the contract for an odd second field
C7_Witness ==
    /\ validate
    /\ decls = <<"required", "into">>
    /\ args = <<2, 1>>
    /\ result = Result("Err", NoValue, <<"is odd", 2>>)

\* C8: without `validate`, build is offered on every builder of the final
\* stage and returns the assembled value itself, and Validate::validate is
\* never called.
C8_UnvalidatedBuildIsTotal ==
    ~validate =>
        /\ validated = << >>
        /\ Built => result = Result("value", ExpectedValue, << >>)
        /\ \A self \in live : self.stage = "Complete" => ENABLED Build(self)

\* a value the contract would reject was built without `validate`
C8_Witness ==
    /\ ~validate
    /\ result.status = "value"
    /\ ~Validate_validate(fields, result.value).ok

(***************************************************************************)
(* The collection operations, as a caller of the final stage applies them. *)
(***************************************************************************)
IsCollection(f) == decls[f] \in CollectionDecls

\* the builders of the structs that declare a collection field and no
\* struct option, as the Collections structs of the tests do
CollectionInit ==
    /\ Init
    /\ input.attrs = << >>
    /\ \E f \in 1..Len(decls) : IsCollection(f)

CollectionSpec == CollectionInit /\ [][Next]_vars

\* the arguments of the plural operations of field f
SeqsFor(f) == IF decls[f] = "map" THEN EntrySeqs ELSE ItemSeqs

\* push_f / insert_f, the plural setter f and extend_f applied to self
PushOf(self, f, x) ==
    IF decls[f] = "map"
    THEN insert_method(fields, f, self, x[1], x[2])
    ELSE push_method(fields, f, self, x)

PluralOf(self, f, s) ==
    IF decls[f] = "map"
    THEN map_setter(fields, f, self, s)
    ELSE plural_setter(fields, f, self, s)

ExtendOf(self, f, s) ==
    IF decls[f] = "map"
    THEN map_extend_method(fields, f, self, s)
    ELSE extend_method(fields, f, self, s)

\* push_f / insert_f called once for each item of s from position i on
RECURSIVE PushAll(_, _, _, _)
PushAll(self, f, s, i) ==
    IF i > Len(s) THEN self ELSE PushAll(PushOf(self, f, s[i]), f, s, i + 1)

\* the item a collection of declaration k stores for the argument x
ExpectedItem(k, x) ==
    CASE k = "set" -> Into_into(x)
      [] k = "map" -> <<to_string(x[1]), x[2]>>
      [] OTHER -> x

\* the collection of declaration k built from the arguments s alone: the
\* converted items in order (list), the set of them (set), the last entry
\* given for each key (map)
ExpectedCollection(k, s) ==
    CASE k = "list" -> [i \in 1..Len(s) |-> ExpectedItem(k, s[i])]
      [] k = "set" -> {ExpectedItem(k, s[i]) : i \in 1..Len(s)}
      [] OTHER ->
            {ExpectedItem(k, s[i]) :
                i \in {j \in 1..Len(s) :
                          \A l \in (j + 1)..Len(s) : s[l][1] # s[j][1]}}

\* C9: on every builder of the final stage, whatever a collection field has
\* accumulated, its plural setter called with s leaves the collection built
\* from the converted items of s alone; called again with s2 it leaves what
\* one call with s2 leaves.
C9_PluralSetterOverwrites ==
    \A self \in live :
        self.stage = "Complete" =>
            \A f \in 1..Len(decls) :
                IsCollection(f) =>
                    LET once == {PluralOf(self, f, s) : s \in SeqsFor(f)}
                    IN  \A s2 \in SeqsFor(f) :
                            LET second == PluralOf(self, f, s2).vals[f]
                            IN  /\ second = ExpectedCollection(decls[f], s2)
                                /\ \A first \in once :
                                        PluralOf(first, f, s2).vals[f] = second

\* the plural setter of a list that held two items left a list of one
C9_Witness ==
    /\ decls = <<"list">>
    /\ lastOp = Op("plural", 1, 2)
    /\ \E self \in live : self.vals[1] = <<2>>

\* C10 as claimed: push/insert once for each item of s equals extend with s,
\* both keep every item accumulated before, and on a fresh builder both
\* equal the plural setter with s.
C10_AdditiveKeepsEveryItem ==
    \A self \in live :
        self.stage = "Complete" =>
            \A f \in 1..Len(decls) :
                IsCollection(f) =>
                    \A s \in SeqsFor(f) :
                        LET old == self.vals[f]
                            pushed == PushAll(self, f, s, 1).vals[f]
                            extended == ExtendOf(self, f, s).vals[f]
                        IN  /\ pushed = extended
                            /\ IF decls[f] = "list"
                               THEN SubSeq(extended, 1, Len(old)) = old
                               ELSE old \subseteq extended
                            /\ f \notin DOMAIN lastSet =>
                                    extended = PluralOf(self, f, s).vals[f]

\* C10, amended: push/insert once for each item of s equals extend with s;
\* both keep every item accumulated before, except that an entry of a map
\* is replaced by a later entry with the same key; on a fresh builder both
\* equal the plural setter with s.
C10_AdditiveAndAgree ==
    \A self \in live :
        self.stage = "Complete" =>
            \A f \in 1..Len(decls) :
                IsCollection(f) =>
                    \A s \in SeqsFor(f) :
                        LET old == self.vals[f]
                            pushed == PushAll(self, f, s, 1).vals[f]
                            extended == ExtendOf(self, f, s).vals[f]
                            given == ExpectedCollection(decls[f], s)
                        IN  /\ pushed = extended
                            /\ CASE decls[f] = "list" -> extended = old \o given
                                 [] decls[f] = "set" -> extended = old \cup given
                                 [] OTHER ->
                                      extended =
                                        {e \in old : \A g \in given : g[1] # e[1]}
                                            \cup given
                            /\ f \notin DOMAIN lastSet =>
                                    extended = PluralOf(self, f, s).vals[f]

\* insert on a map that held one entry under the same key left one entry,
\* the later one
C10_Witness ==
    /\ decls = <<"map">>
    /\ lastOp = Op("insert", 1, 1)
    /\ \E self \in live : self.vals[1] = {<<21, 2>>}

(***************************************************************************)
(* Two constructions of one struct: the caller puts the builder of the     *)
(* first aside and calls builder() again.                                  *)
(***************************************************************************)
TwoDeclNames == {"required", "list"}

\* the structs with required fields and at most one list field
TwoInputs ==
    {Struct(<< >>, ks) :
        ks \in {q \in SchemasOver(TwoDeclNames) :
                    Cardinality({i \in DOMAIN q : q[i] = "list"}) <= 1}}

\* the caller keeps the builder it holds in a variable of its own and is
\* free to start another construction
Park ==
    /\ live # {}
    /\ other = {}
    /\ other' = live
    /\ live' = {}
    /\ lastOp' = Op("none", 0, 0)
    /\ called' = << >>
    /\ args' = << >>
    /\ lastSet' = << >>
    /\ evals' = << >>
    /\ evalOrder' = << >>
    /\ UNCHANGED <<input, expansion, overrides, fields, result, validated, clock>>

TwoNext ==
    \/ Builder
    \/ Park
    \/ \E self \in live :
        \/ \E x \in Args : StageSetter(self, x)
        \/ \E f \in 1..Len(fields) :
            \/ \E x \in Args : Push(self, f, x)
            \/ \E s \in ItemSeqs : PluralSetter(self, f, s)
            \/ \E s \in ItemSeqs : Extend(self, f, s)
        \/ Build(self)

TwoSpec == InitFrom(TwoInputs) /\ [][TwoNext]_vars

\* the second construction has just reached the final stage
SecondJustComplete ==
    /\ other # {}
    /\ lastOp.op \in {"builder", "stage"}
    /\ \E self \in live : self.stage = "Complete"

\* C11: a builder made while another builder of the same struct exists
\* holds, on reaching the final stage, the freshly evaluated default of
\* every defaultable field (an empty collection), whatever the other
\* builder holds; and no operation on it, from builder() to build, changes
\* the other builder.
C11_InstancesShareNothing ==
    [][/\ other # {} => other' = other
       /\ SecondJustComplete' =>
            \A self \in live' : \A f \in DOMAIN self.vals :
                decls[f] = "list" => self.vals[f] = << >>]_vars

\* the first builder holds an item in its list, the second a different one
C11_Witness ==
    /\ decls = <<"list">>
    /\ \E b \in other : b.vals[1] = <<1>>
    /\ \E self \in live : self.vals[1] = <<2>>
    /\ lastOp.op = "push"

(***************************************************************************)
(* A construction in a program whose state changes while the builder is    *)
(* held, with default expressions that read that state.                    *)
(***************************************************************************)
ClockDeclNames == {"required", "default_now", "list"}

ClockInputs ==
    {Struct(<< >>, ks) :
        ks \in SchemasOver(ClockDeclNames)}

\* the program around the builder moves on, until build has returned
Tick ==
    /\ clock < MaxClock
    /\ result.status = "none"
    /\ clock' = clock + 1
    /\ UNCHANGED <<input, expansion, overrides, fields, live, result, validated, lastOp,
                   called, args, lastSet, other, evals, evalOrder>>

ClockNext ==
    \/ Builder
    \/ Tick
    \/ \E self \in live :
        \/ \E x \in Args : StageSetter(self, x)
        \/ \E f \in 1..Len(fields) :
            \/ \E x \in Args : NormalSetter(self, f, x)
            \/ \E x \in Args : Push(self, f, x)
            \/ \E s \in ItemSeqs : PluralSetter(self, f, s)
            \/ \E s \in ItemSeqs : Extend(self, f, s)
        \/ Build(self)

ClockSpec == InitFrom(ClockInputs) /\ [][ClockNext]_vars

\* the positions declared with a default, and those no setter was called on
Defaultable == {f \in 1..Len(decls) : decls[f] \notin {"required", "into"}}

Untouched == Defaultable \ DOMAIN lastSet

\* the value of the default expression of declaration k at clock t
DefaultAt(k, t) == IF k = "default_now" THEN t ELSE ExpectedDefault(k)

\* C12 as claimed: a non-collection defaultable field that no setter was
\* called on holds, in the built value, the value its default expression
\* has at build; the final stage holds the collection defaults from its
\* creation.
C12_DefaultsTakenAtBuild ==
    /\ Built =>
            \A f \in Untouched :
                ~IsCollection(f) => result.value[f] = DefaultAt(decls[f], clock)
    /\ \A self \in live :
            self.stage = "Complete" =>
                \A f \in Untouched :
                    IsCollection(f) =>
                        f \in DOMAIN self.vals /\ self.vals[f] = DefaultAt(decls[f], clock)

\* C12, amended: the default expression of every defaultable field,
\* collection or not, is evaluated once, in the operation that creates the
\* final stage (builder() or the setter of the last required stage), and
\* not before; a field no setter was called on holds the value the
\* expression had then, on the final stage and in the built value, whatever
\* happened between that moment and build.
C12_DefaultsTakenAtStageCreation ==
    /\ \A self \in live :
            /\ self.stage # "Complete" =>
                    evals = << >> /\ DOMAIN self.vals \cap Defaultable = {}
            /\ self.stage = "Complete" =>
                    /\ DOMAIN evals = Defaultable
                    /\ \A f \in Defaultable : Len(evals[f]) = 1
                    /\ \A f \in Untouched :
                            self.vals[f] = DefaultAt(decls[f], evals[f][1])
            /\ lastOp.op \in {"none", "builder", "stage"} =>
                    \A f \in DOMAIN evals : evals[f][1] <= clock
    /\ Built =>
            /\ DOMAIN evals = Defaultable
            /\ \A f \in Untouched :
                    /\ Len(evals[f]) = 1
                    /\ result.value[f] = DefaultAt(decls[f], evals[f][1])

\* the final stage was created at clock 1 and built at clock 2: the value
\* holds the default as of clock 1
C12_Witness ==
    /\ decls = <<"required", "default_now">>
    /\ Built
    /\ clock = 2
    /\ evals[2] = <<1>>
    /\ result.value[2] = 1
    /\ Untouched = {2}

(***************************************************************************)
(* The operations the final stage offers on each field.                    *)
(***************************************************************************)
\* the operations of the final stage that can be called on field f of self
\* (push on a list that has reached the longest length considered is left
\* out of the count)
OfferedOps(self, f) ==
    {o \in {"set", "push", "plural", "extend", "insert", "map_plural",
            "map_extend"} :
        CASE o = "set" -> ENABLED (\E x \in Args : NormalSetter(self, f, x))
          [] o = "push" -> ENABLED (\E x \in Args : Push(self, f, x))
          [] o = "plural" -> ENABLED (\E s \in ItemSeqs : PluralSetter(self, f, s))
          [] o = "extend" -> ENABLED (\E s \in ItemSeqs : Extend(self, f, s))
          [] o = "insert" -> ENABLED (\E e \in Entries : Insert(self, f, e))
          [] o = "map_plural" -> ENABLED (\E s \in EntrySeqs : MapSetter(self, f, s))
          [] OTHER -> ENABLED (\E s \in EntrySeqs : MapExtend(self, f, s))}

\* the operations promised for a field declared as k
PromisedOps(k) ==
    CASE k \in {"required", "into"} -> {}
      [] k \in {"list", "set"} -> {"push", "plural", "extend"}
      [] k = "map" -> {"insert", "map_plural", "map_extend"}
      [] OTHER -> {"set"}

Full(self, f) == decls[f] = "list" /\ Len(self.vals[f]) >= MaxLen

FinalCalls(f) ==
    CASE decls[f] \in {"list", "set"} ->
            {[m |-> "push", a |-> x] : x \in Args}
                \cup {[m |-> o, a |-> s] : o \in {"plural", "extend"}, s \in ItemSeqs}
      [] decls[f] = "map" ->
            {[m |-> "insert", a |-> e] : e \in Entries}
                \cup {[m |-> o, a |-> s] : o \in {"plural", "extend"}, s \in EntrySeqs}
      [] OTHER -> {[m |-> "set", a |-> x] : x \in Args}

\* the builder the call c on field f returns for self
CallOn(self, f, c) ==
    CASE c.m = "set" -> normal_setter(fields, f, self, c.a)
      [] c.m = "push" -> push_method(fields, f, self, c.a)
      [] c.m = "insert" -> insert_method(fields, f, self, c.a[1], c.a[2])
      [] c.m = "plural" /\ decls[f] = "map" -> map_setter(fields, f, self, c.a)
      [] c.m = "plural" -> plural_setter(fields, f, self, c.a)
      [] c.m = "extend" /\ decls[f] = "map" -> map_extend_method(fields, f, self, c.a)
      [] OTHER -> extend_method(fields, f, self, c.a)

\* the structs with at least two fields that have a default, over one
\* declaration of each kind of field
FrameDeclNames == {"required", "default", "list", "map"}

FrameInputs ==
    {Struct(<< >>, ks) :
        ks \in {q \in SchemasOver(FrameDeclNames) :
                    Cardinality({f \in DOMAIN q : q[f] # "required"}) >= 2}}

FrameSpec == InitFrom(FrameInputs) /\ [][Next]_vars

\* C14: an operation of the final stage returns a builder that is still in
\* the final stage and differs from the one it was called on in its own
\* field only, so that the builder holds, for each field, what the last
\* operation on that field left, whatever was called on other fields since;
\* two operations on different fields give the same builder, and the same
\* built value, in either order.
C14_FinalSettersFrameAndCommute ==
    \A self \in live :
        self.stage = final_name =>
            /\ lastOp.op \in {"set", "push", "plural", "extend", "insert"} =>
                    lastOp.f \in Defaultable
            /\ self.vals =
                [h \in 1..Len(decls) |->
                    IF h \in RequiredPositions THEN ExpectedStored(decls[h], args[h])
                    ELSE IF h \in DOMAIN lastSet THEN lastSet[h]
                    ELSE ExpectedDefault(decls[h])]
            /\ \A f, g \in Defaultable :
                f # g =>
                    \A c \in FinalCalls(f) :
                        /\ CallOn(self, f, c).stage = final_name
                        /\ CallOn(self, f, c).vals[g] = self.vals[g]
            /\ \A f, g \in Defaultable :
                f < g =>
                    LET second == [d \in FinalCalls(g) |-> CallOn(self, g, d)]
                    IN  \A c \in FinalCalls(f) :
                            LET first == CallOn(self, f, c)
                            IN  \A d \in FinalCalls(g) :
                                    LET fg == CallOn(first, g, d)
                                        gf == CallOn(second[d], f, c)
                                    IN  /\ fg = gf
                                        /\ build(overrides, fields, fg).result
                                            = build(overrides, fields, gf).result

\* a setter of a normal field and then a push on a list field have been
\* called on the final stage
C14_Witness ==
    /\ decls = <<"default", "list">>
    /\ DOMAIN lastSet = {1, 2}
    /\ lastOp = Op("push", 2, 0)
    /\ \E self \in live : self.stage = final_name /\ self.vals[2] = <<2>>

(***************************************************************************)
(* Conversions: identity, into, custom with a function path, custom with   *)
(* an inline closure, on a field and on the items of a collection.         *)
(***************************************************************************)
ConvDeclNames ==
    {"required", "into", "custom", "closure", "default", "list", "set",
     "list_custom", "list_closure"}

ConvInputs == {Struct(<< >>, ks) : ks \in SchemasOver(ConvDeclNames)}

ConvNext ==
    \/ Builder
    \/ \E self \in live :
        \/ \E x \in Args : StageSetter(self, x)
        \/ \E f \in 1..Len(fields) :
            \/ \E x \in Args : NormalSetter(self, f, x)
            \/ \E x \in Args : Push(self, f, x)
            \/ \E s \in ItemSeqs : PluralSetter(self, f, s)
            \/ \E s \in ItemSeqs : Extend(self, f, s)
        \/ Build(self)

ConvSpec == InitFrom(ConvInputs) /\ [][ConvNext]_vars

\* what a declaration says of its field: the kind of field, whether it is
\* required, and the conversion of its setter argument or of its items
\* (key and value for a map): "id", "into" or "fn" (to_string, written as a
\* path or as a closure)
Declared(k) ==
    CASE k = "required" -> [kind |-> "normal", req |-> TRUE, conv |-> "id", key |-> "", value |-> ""]
      [] k = "into" -> [kind |-> "normal", req |-> TRUE, conv |-> "into", key |-> "", value |-> ""]
      [] k = "custom_into" -> [kind |-> "normal", req |-> TRUE, conv |-> "into", key |-> "", value |-> ""]
      [] k \in {"custom", "closure"} ->
            [kind |-> "normal", req |-> TRUE, conv |-> "fn", key |-> "", value |-> ""]
      [] k = "default" -> [kind |-> "normal", req |-> FALSE, conv |-> "fn", key |-> "", value |-> ""]
      [] k \in {"default_expr", "default_now"} ->
            [kind |-> "normal", req |-> FALSE, conv |-> "id", key |-> "", value |-> ""]
      [] k = "list" -> [kind |-> "list", req |-> FALSE, conv |-> "id", key |-> "", value |-> ""]
      [] k \in {"list_custom", "list_closure"} ->
            [kind |-> "list", req |-> FALSE, conv |-> "fn", key |-> "", value |-> ""]
      [] k \in {"set", "set_custom_into"} ->
            [kind |-> "set", req |-> FALSE, conv |-> "into", key |-> "", value |-> ""]
      [] k = "map" -> [kind |-> "map", req |-> FALSE, conv |-> "", key |-> "fn", value |-> "id"]
      [] k = "map_value" -> [kind |-> "map", req |-> FALSE, conv |-> "", key |-> "id", value |-> "into"]
      [] k = "map_both" -> [kind |-> "map", req |-> FALSE, conv |-> "", key |-> "into", value |-> "fn"]
      [] OTHER -> [kind |-> "map", req |-> FALSE, conv |-> "", key |-> "into", value |-> "into"]

\* the conversion c applied to x, once
Converted(c, x) ==
    CASE c = "into" -> Into_into(x)
      [] c = "fn" -> to_string(x)
      [] OTHER -> x

ConvertedSeq(c, s) == [i \in 1..Len(s) |-> Converted(c, s[i])]

\* C15: the value a setter stores is the conversion of its field applied
\* once to the argument (the argument itself without a conversion, into(),
\* or the custom callable, written as a function path or as an inline
\* closure); the single-item operation of a list or set stores the converted
\* item, and the plural setter and extend store the converted items.
C15_StoredIsConvertedOnce ==
    \A self \in live :
        /\ \A i \in DOMAIN self.vals :
            Declared(decls[i]).req =>
                self.vals[i] = Converted(Declared(decls[i]).conv, args[i])
        /\ self.stage = final_name =>
            \A f \in 1..Len(decls) :
                LET d == Declared(decls[f])
                    old == self.vals[f]
                IN  CASE d.req -> TRUE
                      [] d.kind = "normal" ->
                            \A x \in Args :
                                normal_setter(fields, f, self, x).vals[f]
                                    = Converted(d.conv, x)
                      [] d.kind = "list" ->
                            /\ \A x \in Args :
                                push_method(fields, f, self, x).vals[f]
                                    = Append(old, Converted(d.conv, x))
                            /\ \A s \in ItemSeqs :
                                /\ plural_setter(fields, f, self, s).vals[f]
                                    = ConvertedSeq(d.conv, s)
                                /\ extend_method(fields, f, self, s).vals[f]
                                    = old \o ConvertedSeq(d.conv, s)
                      [] OTHER ->
                            /\ \A x \in Args :
                                push_method(fields, f, self, x).vals[f]
                                    = old \cup {Converted(d.conv, x)}
                            /\ \A s \in ItemSeqs :
                                /\ plural_setter(fields, f, self, s).vals[f]
                                    = Range(ConvertedSeq(d.conv, s))
                                /\ extend_method(fields, f, self, s).vals[f]
                                    = old \cup Range(ConvertedSeq(d.conv, s))

\* the struct ClosureConvert of the tests, built as the test builds it: the
\* field and the item of the list hold a closure that was never called,
\* where the test expects the converted arguments
C15_Witness ==
    /\ decls = <<"closure", "list_closure">>
    /\ result.status = "value"
    /\ args = <<1>>
    /\ lastOp = Op("build", 0, 0)
    /\ DOMAIN lastSet = {2}
    /\ result.value = <<UncalledClosure, <<UncalledClosure>> >>

(***************************************************************************)
(* Maps: the conversions of the key and of the value.                      *)
(***************************************************************************)
MapDeclNames == {"required", "map", "map_value", "map_both"}

MapInputs == {Struct(<< >>, ks) : ks \in SchemasOver(MapDeclNames)}

MapNext ==
    \/ Builder
    \/ \E self \in live :
        \/ \E x \in Args : StageSetter(self, x)
        \/ \E f \in 1..Len(fields) :
            \/ \E e \in Entries : Insert(self, f, e)
            \/ \E s \in EntrySeqs : MapSetter(self, f, s)
            \/ \E s \in EntrySeqs : MapExtend(self, f, s)
        \/ Build(self)

MapSpec == InitFrom(MapInputs) /\ [][MapNext]_vars

\* the map m with the entry of key k, if any, replaced by (k, v)
Put(m, k, v) == {p \in m : p[1] # k} \cup {<<k, v>>}

\* the entries of s from position i on, put into m one after the other, the
\* key converted by ck and the value by cv
RECURSIVE PutAll(_, _, _, _, _)
PutAll(m, ck, cv, s, i) ==
    IF i > Len(s)
    THEN m
    ELSE PutAll(Put(m, Converted(ck, s[i][1]), Converted(cv, s[i][2])),
                ck, cv, s, i + 1)

\* C16: the key and the value of a map field are converted independently,
\* each by its own conversion: insert puts (convertKey(k), convertValue(v)),
\* the plural setter and extend put that pair for every entry given; when
\* only the key or only the value has a conversion, the other is stored as
\* given.
C16_KeyAndValueConvertedIndependently ==
    \A self \in live :
        self.stage = final_name =>
            \A f \in 1..Len(decls) :
                LET d == Declared(decls[f])
                    old == self.vals[f]
                IN  d.kind = "map" =>
                        /\ \A e \in Entries :
                            insert_method(fields, f, self, e[1], e[2]).vals[f]
                                = Put(old, Converted(d.key, e[1]),
                                      Converted(d.value, e[2]))
                        /\ \A s \in EntrySeqs :
                            /\ map_setter(fields, f, self, s).vals[f]
                                = PutAll({}, d.key, d.value, s, 1)
                            /\ map_extend_method(fields, f, self, s).vals[f]
                                = PutAll(old, d.key, d.value, s, 1)
                        /\ lastOp.f = f => old = lastSet[f]

\* a map whose value alone has a conversion, after insert(1, 2): the key is
\* stored as given, the value converted
C16_Witness ==
    /\ decls = <<"map_value">>
    /\ lastOp = Op("insert", 1, 0)
    /\ \E self \in live : self.vals[1] = {<<1, Into_into(2)>>}

(***************************************************************************)
(* into, and custom with type impl Into<T> and convert Into::into.         *)
(***************************************************************************)
IntoDeclNames == {"into", "default_into", "set", "map_into"}

IntoInputs == {Struct(<< >>, ks) : ks \in SchemasOver(IntoDeclNames)}

IntoSpec == InitFrom(IntoInputs) /\ [][Next]_vars

\* the declaration k with every `into` written as
\* custom(type = impl Into<T>, convert = Into::into)
CustomTwin(k) ==
    CASE k = "into" -> "custom_into"
      [] k = "default_into" -> "default_custom_into"
      [] k = "set" -> "set_custom_into"
      [] k = "map_into" -> "map_custom_into"
      [] OTHER -> k

\* the fields of the struct resolved from the declarations written with
\* custom
twin ==
    resolve_fields(NamedFields([i \in 1..Len(decls) |-> CustomTwin(decls[i])])).value

\* the parameter types of the setters of a resolved field
ParamTypes(field) ==
    <<field.mode.kind, field.mode.type_, field.mode.item.type_,
      field.mode.key.type_, field.mode.value.type_>>

\* C17: a struct declared with `into`, on a field or on the item, key or
\* value of a collection, and the same struct declared with
\* custom(type = impl Into<T>, convert = Into::into) in its place have the
\* same stages, the same defaults and the same parameter types, and every
\* operation gives the same builder, and build the same value, on both.
C17_IntoIsCustomInto ==
    /\ expand_stages(fields) = expand_stages(twin)
    /\ initial_stage(fields) = initial_stage(twin)
    /\ builder_impl(fields) = builder_impl(twin)
    /\ \A f \in 1..Len(decls) :
        /\ ParamTypes(fields[f]) = ParamTypes(twin[f])
        /\ fields[f].default = twin[f].default
    /\ \A self \in live :
        IF self.stage # final_name
        THEN /\ StageIndex(fields, self.stage) = StageIndex(twin, self.stage)
             /\ \A x \in Args :
                    stage(fields, StageIndex(fields, self.stage), self, x)
                        = stage(twin, StageIndex(twin, self.stage), self, x)
        ELSE /\ build(overrides, fields, self) = build(overrides, twin, self)
             /\ \A f \in 1..Len(decls) :
                    CASE decls[f] = "default_into" ->
                            \A x \in Args :
                                normal_setter(fields, f, self, x)
                                    = normal_setter(twin, f, self, x)
                      [] decls[f] = "set" ->
                            /\ \A x \in Args :
                                push_method(fields, f, self, x)
                                    = push_method(twin, f, self, x)
                            /\ \A s \in ItemSeqs :
                                /\ plural_setter(fields, f, self, s)
                                    = plural_setter(twin, f, self, s)
                                /\ extend_method(fields, f, self, s)
                                    = extend_method(twin, f, self, s)
                      [] decls[f] = "map_into" ->
                            /\ \A e \in Entries :
                                insert_method(fields, f, self, e[1], e[2])
                                    = insert_method(twin, f, self, e[1], e[2])
                            /\ \A s \in EntrySeqs :
                                /\ map_setter(fields, f, self, s)
                                    = map_setter(twin, f, self, s)
                                /\ map_extend_method(fields, f, self, s)
                                    = map_extend_method(twin, f, self, s)
                      [] OTHER -> TRUE

\* a struct with a required `into` field and a set of `into` items, after
\* its stage setter and an insert: both store the converted argument
C17_Witness ==
    /\ decls = <<"into", "set">>
    /\ lastOp = Op("push", 2, 0)
    /\ twin[1].mode.assign = "Into::into"
    /\ fields[1].mode.assign = "into"
    /\ \E self \in live : self.vals = <<Into_into(1), {Into_into(2)}>>

(***************************************************************************)
(* The expansion of the macro on structs with malformed and with           *)
(* conflicting options.                                                    *)
(***************************************************************************)
\* declarations with an option that does not parse
MalformedDecls == {"bogus", "custom_no_type", "list_no_type", "two_bad"}

\* declarations with options that each parse and exclude one another
ConflictDecls == {"into_custom", "custom_then_into", "list_set", "item_into_custom"}

RawDeclNames == {"required", "default"} \cup MalformedDecls \cup ConflictDecls

RawInputs ==
    {Struct(a, ks) :
        a \in {<< >>, <<"validate">>, <<"bogus">>},
        ks \in SchemasOver(RawDeclNames)}

NotExpanded == [status |-> "none", errors |-> << >>]

\* an item of S the macro has not expanded on yet
ExpandFrom(S) ==
    /\ input \in S
    /\ expansion = NotExpanded
    /\ overrides = [validate |-> FALSE]
    /\ fields = << >>
    /\ live = {}
    /\ result = NoResult
    /\ validated = << >>
    /\ lastOp = Op("none", 0, 0)
    /\ called = << >>
    /\ args = << >>
    /\ lastSet = << >>
    /\ clock = 0
    /\ other = {}
    /\ evals = << >>
    /\ evalOrder = << >>

\* the macro expands on the struct
Expand ==
    /\ expansion = NotExpanded
    /\ expansion' = [status |-> expand(input).status, errors |-> expand(input).errors]
    /\ overrides' = expand(input).overrides
    /\ fields' = expand(input).fields
    /\ UNCHANGED <<input, live, result, validated, lastOp, called, args,
                   lastSet, clock, other, evals, evalOrder>>

ExpandInit == ExpandFrom(RawInputs)

ExpandNext == Expand \/ Builder

ExpandSpec == ExpandInit /\ [][ExpandNext]_vars

Expanded == expansion.status # "none"

\* the positions of the fields declared with an option that does not parse
MalformedPositions == {i \in 1..Len(decls) : decls[i] \in MalformedDecls}

NoConflict == \A i \in 1..Len(decls) : decls[i] \notin ConflictDecls

\* C18: the errors of resolution are accumulated across the fields: on a
\* struct whose own options parse, with k fields that have an option that
\* does not parse (and no conflicting options), the expansion fails with k
\* diagnostics, one for each of those fields, in the order of declaration,
\* whatever k >= 1 is and wherever those fields stand, and leaves no list of
\* resolved fields; with k = 0 it succeeds and resolves every field.
C18_FieldErrorsAccumulated ==
    (Expanded /\ input.attrs # <<"bogus">> /\ NoConflict) =>
        IF MalformedPositions = {}
        THEN /\ expansion.status = "Ok"
             /\ expansion.errors = << >>
             /\ Len(fields) = Len(decls)
        ELSE /\ expansion.status = "Err"
             /\ fields = << >>
             /\ Len(expansion.errors) = Cardinality(MalformedPositions)
             /\ \A j \in 1..Len(expansion.errors) :
                    expansion.errors[j].span = Idents[InOrder(MalformedPositions)[j]]
             /\ ~ENABLED Builder

\* three fields, the first and the last malformed: two diagnostics, for a
\* and for c
C18_Witness ==
    /\ decls = <<"bogus", "required", "custom_no_type">>
    /\ input.attrs = <<"validate">>
    /\ expansion.status = "Err"
    /\ Len(expansion.errors) = 2
    /\ expansion.errors[1].span = "a"
    /\ expansion.errors[2] = [span |-> "c", msg |-> "missing type configuration"]
    /\ fields = << >>

\* the number of `builder` attributes of a field declared as k that do not
\* parse
MalformedAttrs(k) ==
    CASE k = "two_bad" -> 2
      [] k \in MalformedDecls -> 1
      [] OTHER -> 0

\* the malformed attributes of the fields from position i on
RECURSIVE MalformedFrom(_)
MalformedFrom(i) ==
    IF i > Len(decls) THEN 0 ELSE MalformedAttrs(decls[i]) + MalformedFrom(i + 1)

MalformedStructOptions == Cardinality({i \in DOMAIN input.attrs : input.attrs[i] = "bogus"})

\* C19: every error of the schema is in the report and none is dropped: a
\* struct option that does not parse, each field attribute that does not
\* parse, two of them on one field included, each contribute a diagnostic.
C19_EveryErrorReported ==
    (Expanded /\ NoConflict) =>
        /\ Len(expansion.errors) = MalformedStructOptions + MalformedFrom(1)
        /\ expansion.status = "Err" <=> MalformedStructOptions + MalformedFrom(1) > 0

\* a struct with a malformed option of its own and a malformed field: the
\* report holds the diagnostic of the struct option alone
C19_Witness ==
    /\ input = Struct(<<"bogus">>, <<"bogus">>)
    /\ expansion.status = "Err"
    /\ expansion.errors = << [span |-> "struct", msg |-> "expected validate"] >>

\* C20: a field with more than one of into, custom, list, set, map, in
\* either order, or a collection item with both into and custom, is
\* rejected: the expansion fails with an error and no builder is made.
C20_ConflictsRejected ==
    (Expanded /\ ~NoConflict) =>
        /\ expansion.status = "Err"
        /\ expansion.errors # << >>
        /\ ~ENABLED Builder
        /\ live = {}

\* a field with both into and custom: the expansion succeeds, the setter
\* converts with the option written last, and a builder is made
C20_Witness ==
    /\ decls = <<"into_custom">>
    /\ expansion = [status |-> "Ok", errors |-> << >>]
    /\ fields[1].mode.assign = "to_string"
    /\ lastOp.op = "builder"
    /\ live # {}

(***************************************************************************)
(* Unknown options and missing sub-options.                                *)
(***************************************************************************)
\* the declarations with an option name the grammar does not know
UnknownDecls ==
    {"bogus", "custom_bogus", "list_bogus", "map_bogus", "item_bogus",
     "key_bogus", "value_bogus"}

\* the declarations with a required sub-option missing, and the sub-option
MissingDecls ==
    {"list_no_item", "set_no_item", "map_no_key", "map_no_value",
     "custom_no_type", "custom_no_convert", "item_custom_no_type",
     "item_custom_no_convert", "list_no_type", "key_no_type", "value_no_type"}

MissingOf(k) ==
    CASE k \in {"list_no_item", "set_no_item"} -> "item"
      [] k = "map_no_key" -> "key"
      [] k = "map_no_value" -> "value"
      [] k \in {"custom_no_convert", "item_custom_no_convert"} -> "convert"
      [] OTHER -> "type"

ParseDecls == UnknownDecls \cup MissingDecls

\* the declarations that resolve
SoundDecls == {"required", "default", "list", "list_custom", "map_both"}

Kinds == {"named", "tuple", "unit", "enum", "union"}

\* the schemas with at most one declaration that does not parse
ParseSchemas ==
    {ks \in SchemasOver(SoundDecls \cup ParseDecls) :
        Cardinality({i \in 1..Len(ks) : ks[i] \in ParseDecls}) <= 1}

ParseInputs ==
    {DeriveInput(data, a, [i \in 1..Len(ks) |-> Idents[i]], ks) :
        data \in Kinds,
        a \in {<< >>, <<"validate">>, <<"bogus">>},
        ks \in ParseSchemas}

ParseSpec == ExpandFrom(ParseInputs) /\ [][ExpandNext]_vars

\* the messages of a lookahead that met none of the names it expects
LookaheadErrors ==
    {"expected one of: default, into, custom, list, set, map",
     "expected type or convert", "expected item", "expected key or value",
     "expected one of: type, into, custom"}

\* the positions of the declarations that do not parse
ParsePositions == {i \in 1..Len(decls) : decls[i] \in ParseDecls}

NoBuilder ==
    /\ expansion.status = "Err"
    /\ expansion.errors # << >>
    /\ fields = << >>
    /\ live = {}
    /\ ~ENABLED Builder

\* C21: an unknown option name, at the level of the struct, of a field or
\* inside custom, list, set, map, item, key or value, and a missing required
\* sub-option (list or set without item, map without key or value, custom
\* without type or convert) are each an error: no builder is produced, and
\* where it is the only fault of a struct the error reported is that of
\* the unknown name or of the missing sub-option, at the field it is on
C21_UnknownAndMissingRejected ==
    Expanded =>
        /\ (ParsePositions # {} \/ "bogus" \in Range(input.attrs)) => NoBuilder
        /\ (input.data = "named" /\ "bogus" \in Range(input.attrs)) =>
                expansion.errors = Err("struct", "expected validate").err
        /\ (input.data = "named" /\ "bogus" \notin Range(input.attrs)) =>
                \A i \in ParsePositions :
                    /\ Len(expansion.errors) = 1
                    /\ expansion.errors[1].span = Idents[i]
                    /\ decls[i] \in UnknownDecls =>
                            expansion.errors[1].msg \in LookaheadErrors
                    /\ decls[i] \in MissingDecls =>
                            expansion.errors[1].msg
                                = "missing " \o MissingOf(decls[i]) \o " configuration"

C21_Witness ==
    /\ Expanded
    /\ input.data = "named"
    /\ input.attrs = << >>
    /\ decls = <<"required", "map_no_value", "default">>
    /\ expansion.errors = Err("b", "missing value configuration").err
    /\ ~ENABLED Builder

(***************************************************************************)
(* The kind of the item.                                                   *)
(***************************************************************************)
\* the error of an item that is not a struct with named fields
KindError ==
    IF input.data \in {"enum", "union"}
    THEN Err("item", "staged builders can only be derived on structs").err
    ELSE Err("item", "staged builders cannot be derived on tuple or unit structs").err

\* C22: only a struct with named fields resolves: an enum, a union, a tuple
\* struct and a unit struct are each rejected with the error of their kind
\* and nothing else, whatever options the item and its fields carry, so
\* before any option is examined, and no builder is produced
C22_OnlyNamedStructs ==
    (Expanded /\ input.data # "named") =>
        /\ expansion.errors = KindError
        /\ NoBuilder

C22_Witness ==
    /\ Expanded
    /\ input.data = "enum"
    /\ input.attrs = <<"bogus">>
    /\ decls = <<"default", "bogus">>
    /\ expansion.errors
            = Err("item", "staged builders can only be derived on structs").err
    /\ ~ENABLED Builder

(***************************************************************************)
(* The type of an item, key or value.                                      *)
(***************************************************************************)
\* the declarations whose item, key or value has neither type nor custom
UntypedDecls == {"list_no_type", "key_no_type", "value_no_type"}

\* C24: inside item, key or value, `type` is required unless `custom` is
\* used: with neither, resolution fails with the error of the missing type
\* and makes no builder; with `custom` alone it succeeds, and the parameter
\* type and the conversion of the setters are those of `custom`
C24_TypeRequiredUnlessCustom ==
    (Expanded /\ input.data = "named" /\ "bogus" \notin Range(input.attrs)) =>
        /\ \A i \in 1..Len(decls) :
                decls[i] \in UntypedDecls =>
                    /\ expansion.errors
                            = Err(Idents[i], "missing type configuration").err
                    /\ NoBuilder
        /\ ParsePositions = {} =>
                /\ expansion.status = "Ok"
                /\ Len(fields) = Len(decls)
                /\ \A i \in 1..Len(decls) :
                        /\ decls[i] = "list_custom" =>
                                /\ fields[i].mode.kind = "List"
                                /\ fields[i].mode.item
                                        = ParamConfig("impl Display", "to_string")
                        /\ decls[i] = "map_both" =>
                                /\ fields[i].mode.kind = "Map"
                                /\ fields[i].mode.value
                                        = ParamConfig("impl Display", "to_string")

C24_Witness ==
    /\ Expanded
    /\ decls = <<"required", "list_custom">>
    /\ expansion.status = "Ok"
    /\ fields[2].mode.item = ParamConfig("impl Display", "to_string")
    /\ lastOp = Op("builder", 0, 0)

(***************************************************************************)
(* Every combination and order of the options of a field.                  *)
(***************************************************************************)
OptionNames == {"default", "default_expr", "into", "custom", "list", "set", "map"}

\* the options written on a field, in order
Combos == SeqsUpTo(OptionNames, MaxOpts)

\* the type of the field the options os are written on: the collection of
\* its last collection option, if any
ComboType(os) ==
    LET cs == {i \in DOMAIN os : os[i] \in {"list", "set", "map"}}
    IN  IF cs = {} THEN "int" ELSE os[CHOOSE i \in cs : \A j \in cs : j <= i]

\* the option named n, on a field of type ty
Option(n, ty) ==
    CASE n = "default" -> DefaultOv(DefaultTokens)
      [] n = "default_expr" -> DefaultOv(IF ty = "int" THEN "42" ELSE OneItemTokens)
      [] n = "into" -> IntoOv
      [] n = "custom" -> CustomOv("impl Display", "to_string")
      [] n = "list" -> ListOv(<<TypeOpt("u32")>>)
      [] n = "set" -> SetOv(<<TypeOpt("u32")>>)
      [] OTHER -> MapOv(<<TypeOpt("u32")>>, <<TypeOpt("u32")>>)

\* the field named id with the options os in one attribute
ComboField(id, os) ==
    [ident |-> id, ty |-> ComboType(os),
     attrs |-> IF os = << >>
               THEN << >>
               ELSE << [i \in 1..Len(os) |-> Option(os[i], ComboType(os))] >>]

\* the field under test alone, after a required field, and before one
ComboSchemas ==
    UNION {{<<os>>, <<<< >>, os>>, <<os, << >> >>} : os \in Combos}

ComboInputs ==
    {[data |-> "named", attrs |-> << >>,
      idents |-> [i \in 1..Len(cs) |-> Idents[i]], decls |-> cs,
      named |-> [i \in 1..Len(cs) |-> ComboField(Idents[i], cs[i])]] :
        cs \in ComboSchemas}

ComboNext ==
    \/ Builder
    \/ \E self \in live, x \in Args : StageSetter(self, x)
    \/ \E self \in live : Build(self)

ComboSpec == InitFrom(ComboInputs) /\ [][ComboNext]_vars

CollectionModes == {"List", "Set", "Map"}

\* the fields in list, set or map mode
CollectionFields == {f \in 1..Len(fields) : fields[f].mode.kind \in CollectionModes}

\* C23: a field in list, set or map mode is always defaultable, and its
\* default is the empty collection, whether or not a `default` option, with
\* or without an expression, is written too, and whatever the order of the
\* options: a builder that never touches the field builds the empty
\* collection
C23_CollectionDefaultsEmpty ==
    /\ \A f \in CollectionFields : fields[f].default.some
    /\ result.status = "value" =>
            \A f \in CollectionFields : result.value[f] = TypeDefault(fields[f].ty)

\* list(...) followed by default = <expr>: the field builds to the value
\* of the expression
C23_Witness ==
    /\ decls = << <<"list", "default_expr">> >>
    /\ fields[1].mode.kind = "List"
    /\ lastOp.op = "build"
    /\ result.value = << <<0>> >>

\* C28: after resolution, for every combination and order of the options
\* of a field, a field in list, set or map mode has a default: no
\* collection field is a required stage, the stage generator never meets
\* a mode other than Normal, and every stage setter is that of a normal
\* field
C28_CollectionNeverRequired ==
    /\ expansion.status = "Ok"
    /\ \A f \in CollectionFields : fields[f].default.some
    /\ \A f \in RequiredFrom(fields, 1) : stage_mode(fields[f]) = "Normal"
    /\ lastOp.op = "stage" => fields[lastOp.f].mode.kind = "Normal"

C28_Witness ==
    /\ decls = << << >>, <<"custom", "default_expr", "set">> >>
    /\ fields[2].mode.kind = "Set"
    /\ lastOp = Op("stage", 1, 0)
    /\ \E self \in live : self.stage = final_name /\ self.vals[2] = {}

(***************************************************************************)
(* What a stage holds.                                                     *)
(***************************************************************************)
\* the required fields declared strictly before the field of stage `name`
HeldBefore(name) ==
    {i \in RequiredFrom(fields, 1) : i < StageIndex(fields, name)}

\* C27: a builder before the terminal stage holds exactly the required
\* fields declared strictly before the field of its stage; each value it
\* holds is the one the setter of that field stored, carried unchanged
\* through every later stage setter, which adds its own field only; and
\* the initial stage of a schema with a required field holds no field
C27_StageHoldsEarlierRequired ==
    /\ \A self \in live :
            self.stage # final_name =>
                /\ DOMAIN self.vals = HeldBefore(self.stage)
                /\ \A i \in DOMAIN self.vals :
                        self.vals[i] = Assign(fields[i].mode, args[i])
    /\ \A self \in live :
            self.stage = final_name =>
                \A i \in RequiredFrom(fields, 1) :
                    self.vals[i] = Assign(fields[i].mode, args[i])
    /\ (lastOp.op = "builder" /\ RequiredFrom(fields, 1) # {}) =>
            live = {BuilderOf(initial_stage(fields), << >>)}
    /\ lastOp.op = "stage" =>
            \A self \in live :
                \/ self.stage = final_name
                \/ DOMAIN self.vals
                        = {i \in RequiredFrom(fields, 1) : i <= lastOp.f}

C27_Witness ==
    /\ decls = <<"into", "default", "required">>
    /\ lastOp = Op("stage", 1, 0)
    /\ args = <<1>>
    /\ live = {BuilderOf("CStage", <<Into_into(1)>>)}

(***************************************************************************)
(* When and in what order the default expressions are evaluated.           *)
(***************************************************************************)
\* the defaultable fields, in declaration order
DefaultableInOrder ==
    SelectSeq([i \in 1..Len(decls) |-> i], LAMBDA i : i \in Defaultable)

\* the construction has reached the terminal stage
ReachedFinal ==
    \/ \E self \in live : self.stage = final_name
    \/ result.status # "none"

\* C29: the transition into the terminal stage evaluates the default
\* expression of every defaultable field exactly once, in declaration
\* order: no default is evaluated while the construction is before the
\* terminal stage, and from the moment it is there the evaluations made are
\* one for each defaultable field, in declaration order, whatever setters
\* of the terminal stage and build are called afterwards, also on a field
\* that is overridden
C29_DefaultsEvaluatedOnEnteringFinal ==
    /\ ~ReachedFinal => evalOrder = << >>
    /\ ReachedFinal =>
            /\ evalOrder = DefaultableInOrder
            /\ DOMAIN evals = Defaultable
            /\ \A f \in Defaultable :
                    Len(evals[f]) = 1 /\ evals[f][1] = evals[evalOrder[1]][1]

C29_Witness ==
    /\ decls = <<"default_now", "required", "default_now">>
    /\ lastOp.op = "set"
    /\ lastOp.f = 1
    /\ called = <<2>>
    /\ evalOrder = <<1, 3>>
    /\ evals[1] = <<1>>
    /\ clock = 2

(***************************************************************************)
(* The names of the generated stages and methods.                          *)
(***************************************************************************)
\* the field names of the structs below
IdentPool == {"a", "foo", "_foo", "push_foo", "build"}

NameDeclNames == {"required", "default", "list"}

\* the structs with pairwise distinct field names
NameInputs ==
    UNION {{DeriveInput("named", << >>, ids, ks) :
                ids \in {q \in [1..Len(ks) -> IdentPool] :
                            \A i, j \in DOMAIN q : q[i] = q[j] => i = j}} :
           ks \in SchemasOver(NameDeclNames)}

\* the items and methods the macro wrote can be compiled: no two stage
\* types and no two methods of the final stage have the same name
Compiles ==
    /\ \A i, j \in RequiredFrom(fields, 1) :
            stage_name(fields[i]) = stage_name(fields[j]) => i = j
    /\ LET names == final_stage_names(fields, 1)
       IN  \A m, n \in DOMAIN names : names[m] = names[n] => m = n

NameNext ==
    \/ Expand
    \/ Compiles /\ Builder
    \/ \E self \in live, x \in Args : StageSetter(self, x)

NameSpec == ExpandFrom(NameInputs) /\ [][NameNext]_vars

\* the names of the stage types of the required fields, in order
StageNames == [k \in 1..Len(expand_stages(fields)) |-> expand_stages(fields)[k]]

\* no two positions of the sequence s hold the same name
Distinct(s) == \A m, n \in DOMAIN s : s[m] = s[n] => m = n

\* C30: for every struct whose field names are pairwise distinct, the
\* generated names are pairwise distinct: no two required fields have the
\* same stage name, and the operations of the terminal stage (the setter
\* of each normal field, push_/insert_/extend_ and the plural setter of
\* each collection field, and build) all have different names
C30_GeneratedNamesDistinct ==
    (Expanded /\ expansion.status = "Ok") =>
        /\ Distinct(StageNames)
        /\ Distinct(final_stage_names(fields, 1))

\* the required fields foo and _foo both get the stage FooStage
C30_Witness ==
    /\ Expanded
    /\ expansion.status = "Ok"
    /\ input.idents = <<"foo", "_foo">>
    /\ decls = <<"required", "required">>
    /\ StageNames = <<"FooStage", "FooStage">>
    /\ ~Compiles

(***************************************************************************)
(* Update: a built value converted back into the final stage.  The macro   *)
(* of staged-builder-internals/src/lib.rs knows the struct option          *)
(* `validate` only; the option `update` is the one the test `update` of    *)
(* staged-builder/tests/test.rs is written against, and what it generates  *)
(* is modelled here from that test and from the description of the option. *)
(***************************************************************************)
\* From<Struct> for Builder<Complete>: the final stage holding the fields
\* of the value
From_from(fs, value) == BuilderOf(final_name, [i \in 1..Len(fs) |-> value[i]])

UpdateDeclNames == {"required", "into", "default"}

UpdateInputs == {Struct(<<"update">>, ks) : ks \in SchemasOver(UpdateDeclNames)}

\* the values of a struct with the declarations ks
UpdateValues(ks) == {[i \in 1..Len(ks) |-> b] : b \in {1, 2}}

\* the state after the macro has expanded on a struct with the option
\* `update`, and the program holds a value of the struct
UpdateInit ==
    /\ input \in UpdateInputs
    /\ expansion = [status |-> "Ok", errors |-> << >>]
    /\ overrides = [validate |-> FALSE, update |-> TRUE]
    /\ fields = resolve_fields(input.named).value
    /\ live = {}
    /\ result \in {Result("value", v, << >>) : v \in UpdateValues(input.decls)}
    /\ validated = << >>
    /\ lastOp = Op("none", 0, 0)
    /\ called = << >>
    /\ args = << >>
    /\ lastSet = << >>
    /\ clock = 0
    /\ other = {}
    /\ evals = << >>
    /\ evalOrder = << >>

\* Builder::from(value): the built value is moved into a final stage; the
\* caller keeps a copy of it in `other`
FromValue ==
    /\ overrides.update
    /\ result.status = "value"
    /\ other = {}
    /\ live' = {From_from(fields, result.value)}
    /\ other' = {BuilderOf("value", result.value)}
    /\ result' = NoResult
    /\ lastOp' = Op("from", 0, 0)
    /\ lastSet' = << >>
    /\ UNCHANGED <<input, expansion, overrides, fields, validated, called, args,
                   clock, evals, evalOrder>>

\* with `update`, the final stage has the setter of a field without a
\* default as well
UpdateSetter(self, f, x) ==
    /\ overrides.update
    /\ self.stage = final_name
    /\ ~fields[f].default.some
    /\ FinalOp(self, normal_setter(fields, f, self, x), "set", f)

UpdateNext ==
    \/ FromValue
    \/ \E self \in live :
        \/ \E f \in 1..Len(fields) :
            \/ \E x \in Args : NormalSetter(self, f, x)
            \/ \E x \in Args : UpdateSetter(self, f, x)
        \/ Build(self)

UpdateSpec == UpdateInit /\ [][UpdateNext]_vars

\* the value that was converted back
Original == (CHOOSE b \in other : TRUE).vals

NamingOptions(n) ==
    {[builder |-> "Builder", complete |-> "Complete", module |-> "", inline |-> FALSE,
      stage |-> {}],
     [builder |-> "MyBuilder", complete |-> "MyComplete", module |-> "",
      inline |-> FALSE, stage |-> 1..n],
     [builder |-> "Builder", complete |-> "Complete", module |-> "my_custom_mod",
      inline |-> FALSE, stage |-> {}],
     [builder |-> "Builder", complete |-> "Complete", module |-> "", inline |-> TRUE,
      stage |-> {}],
     [builder |-> "Builder", complete |-> "MyComplete", module |-> "",
      inline |-> FALSE, stage |-> {1} \cap (1..n)]}

NamingDeclNames == {"required", "into", "default"}

NamingInputs ==
    UNION {{[data |-> "named", attrs |-> << >>,
             idents |-> [i \in 1..Len(ks) |-> Idents[i]], decls |-> ks,
             named |-> NamedFields(ks), naming |-> nm] :
                nm \in NamingOptions(Len(ks))} :
           ks \in SchemasOver(NamingDeclNames)}

\* the name of the stage type of field i: the one given with `stage`, or
\* the one the macro derives
stage_name_named(nm, fs, i) ==
    IF i \in nm.stage THEN "My" \o stage_name(fs[i]) ELSE stage_name(fs[i])

\* the builder b of the macro, as generated under the names nm: its stage
\* type, and the path and name of the builder type
Rename(nm, fs, b) ==
    [stage |-> IF b.stage = final_name THEN nm.complete
               ELSE stage_name_named(nm, fs, StageIndex(fs, b.stage)),
     vals |-> b.vals,
     ty |-> <<IF nm.inline THEN "inline" ELSE nm.module, nm.builder>>]

\* the builder generated under the names nm, under the names of the macro
Unname(nm, fs, b) ==
    BuilderOf(IF b.stage = nm.complete THEN final_name
              ELSE stage_name(fs[CHOOSE i \in RequiredFrom(fs, 1) :
                                    stage_name_named(nm, fs, i) = b.stage]),
              b.vals)

\* Struct::builder()
NamedBuilder ==
    /\ expansion.status = "Ok"
    /\ lastOp.op = "none"
    /\ live' = {Rename(input.naming, fields, builder_impl(fields))}
    /\ lastOp' = Op("builder", 0, 0)
    /\ evals' = Note(Evaluated(BuilderOf("", << >>), builder_impl(fields)))
    /\ evalOrder' = evalOrder \o InOrderOf(Evaluated(BuilderOf("", << >>),
                                                     builder_impl(fields)))
    /\ UNCHANGED <<input, expansion, overrides, fields, result, validated, called, args,
                   lastSet, clock, other>>

\* the setter of a stage before the final one
NamedStageSetter(self, x) ==
    /\ self.stage # input.naming.complete
    /\ LET plain == Unname(input.naming, fields, self)
           idx == StageIndex(fields, plain.stage)
           next == stage(fields, idx, plain, x)
       IN  /\ live' = Consume(live, self) \cup {Rename(input.naming, fields, next)}
           /\ lastOp' = Op("stage", idx, 0)
           /\ called' = Append(called, idx)
           /\ args' = Record(args, idx, x)
           /\ evals' = Note(Evaluated(plain, next))
           /\ evalOrder' = evalOrder \o InOrderOf(Evaluated(plain, next))
    /\ UNCHANGED <<input, expansion, overrides, fields, result, validated, lastSet,
                   clock, other>>

\* the setter of a normal field with a default, on the final stage
NamedSetter(self, f, x) ==
    /\ self.stage = input.naming.complete
    /\ Settable(f, {"Normal"})
    /\ LET next == normal_setter(fields, f, Unname(input.naming, fields, self), x)
       IN  /\ live' = Consume(live, self) \cup {Rename(input.naming, fields, next)}
           /\ lastOp' = Op("set", f, 0)
           /\ lastSet' = Record(lastSet, f, next.vals[f])
    /\ UNCHANGED <<input, expansion, overrides, fields, result, validated, called, args,
                   clock, other, evals, evalOrder>>

\* build
NamedBuild(self) ==
    /\ self.stage = input.naming.complete
    /\ live' = Consume(live, self)
    /\ result' = build(overrides, fields, Unname(input.naming, fields, self)).result
    /\ validated' = validated
                        \o build(overrides, fields,
                                 Unname(input.naming, fields, self)).validated
    /\ lastOp' = Op("build", 0, 0)
    /\ UNCHANGED <<input, expansion, overrides, fields, called, args, lastSet, clock,
                   other, evals, evalOrder>>

NamingNext ==
    \/ NamedBuilder
    \/ \E self \in live :
        \/ \E x \in Args : NamedStageSetter(self, x)
        \/ \E f \in 1..Len(fields), x \in Args : NamedSetter(self, f, x)
        \/ NamedBuild(self)

NamingSpec == InitFrom(NamingInputs) /\ [][NamingNext]_vars

\* the stage name position i is to have under the names asked for
NamedStageOf(i) ==
    IF i \in input.naming.stage THEN "My" \o StageOf(i) ELSE StageOf(i)

\* the stage of the struct without the overrides that the stage named n
\* stands for
PlainStage(n) ==
    IF n = input.naming.complete THEN "Complete"
    ELSE StageOf(CHOOSE i \in RequiredPositions : NamedStageOf(i) = n)

====
